---- MODULE Spec2Model ----
(***************************************************************************)
(* Model of the property-tree / schema engine of json_schema_builder:      *)
(* the zustand schema store (src/store/useSchemaStore.ts), the schema      *)
(* transform (utils/schemaTransform.ts) and the structural guards of       *)
(* utils/validation.ts.                                                    *)
(*                                                                         *)
(* JavaScript values are encoded so that every field has one TLA+ type:    *)
(*   - ids, keys, types, descriptions are strings; null is the string Null *)
(*   - a default value is a pair <<typeof, JSON text>>                     *)
(*   - an optional object field is a record field that may be absent       *)
(*   - an optional sub-record (items) is a sequence of length 0 or 1       *)
(*   - a JS object used as a map is an insertion-ordered sequence of       *)
(*     [k, v] entries                                                      *)
(***************************************************************************)
EXTENDS Integers, Sequences, FiniteSets, TLC

VARIABLES
    properties,          \* SchemaStore.properties : Property[]
    selectedPropertyId,  \* SchemaStore.selectedPropertyId
    schema,              \* SchemaStore.schema
    schemaString,        \* SchemaStore.schemaString
    isValid,             \* SchemaStore.isValid
    schemaData,          \* SchemaStore.schemaData (<<>> is null)
    nextId,              \* number of ids generateId has handed out so far
    call,                \* the store call that produced this state, its arguments and result
    pre,                 \* the store as it was when that call started
    rt,                  \* arguments and results of the pure functions under study
    persistence,         \* PersistenceStore state: isInitialLoad, isLoading
    validation,          \* ValidationStore state: errors, isValid
    autoSaveTimer,       \* module variable autoSaveTimer: a timeout id, 0 for null
    validationTimer,     \* module variable validationTimer: a timeout id, 0 for null
    timers,              \* the timeouts that are set and have neither run nor been cleared
    timerCount,          \* number of timeouts set so far; the next id is timerCount + 1
    now,                 \* the clock, in ms
    storage,             \* localStorage[STORAGE_KEY]: <<the saved data>>, <<>> for no item
    journal,             \* what autoSave and its callbacks did, oldest first
    deps,                \* the dependencies of the effect of PropertyEditor under study as
                         \* it saw them at its last run, <<>> before its first run
    editing              \* usePropertyEditing of the first property: local state, timer refs
                         \* (0 for null), the type and value its sync effect saw last

envVars == <<persistence, validation, autoSaveTimer, validationTimer, timers, timerCount,
             now, storage, journal, deps, editing>>

vars == <<properties, selectedPropertyId, schema, schemaString, isValid,
          schemaData, nextId, call, pre, rt, envVars>>

store == [properties |-> properties, selectedPropertyId |-> selectedPropertyId,
          schema |-> schema, schemaString |-> schemaString,
          isValid |-> isValid, schemaData |-> schemaData]

-----------------------------------------------------------------------------
(* Bounds of the model *)

MaxIds == 3        \* ids generateId may hand out in the tree specification
MaxEditIds == 2    \* ids generateId may hand out in the editing specification
MaxDeepIds == 12   \* ids generateId may hand out in the deep-nesting specification
MaxRestoreIds == 2 \* ids generateId may hand out in the restore specification
MaxSaved == 2      \* records in a saved array handed to restoreProperties
MaxNodes == 3      \* properties in a list handed to the schema transform
MaxKeyed == 2      \* properties in a collection whose keys are validated
ClockStep == 250   \* ms by which the clock advances in one step
MaxTime == 1500    \* ms after which the clock is no longer advanced
MaxCalls == 3      \* timeouts set in the persistence specification
MaxValidated == 2  \* ids generateId may hand out in the auto-validation specification
MaxEffects == 2    \* runs of the auto-validate effect in the auto-validation specification

-----------------------------------------------------------------------------
(* JavaScript values *)

Null == "<null>"

VNull == <<"null", "null">>
VUndefined == <<"undefined", "">>
VEmptyString == <<"string", "">>

MAX_NESTING_DEPTH == 10

\* generateId: the n-th id handed out; ids are never handed out twice
IdOf(n) == "p" \o ToString(n)

\* String.prototype.trim over the characters the model uses (blank = space)
RECURSIVE TrimLeft(_)
TrimLeft(s) ==
    IF Len(s) > 0 /\ SubSeq(s, 1, 1) = " " THEN TrimLeft(SubSeq(s, 2, Len(s))) ELSE s

RECURSIVE TrimRight(_)
TrimRight(s) ==
    IF Len(s) > 0 /\ SubSeq(s, Len(s), Len(s)) = " "
    THEN TrimRight(SubSeq(s, 1, Len(s) - 1)) ELSE s

Trim(s) == TrimRight(TrimLeft(s))

\* p.key && p.key.trim() !== ''
HasKey(p) == p.key # "" /\ p.key # Null /\ Trim(p.key) # ""

\* !p.parentId
IsRoot(p) == p.parentId = Null \/ p.parentId = ""

\* Array.prototype.find by id: index of the first property with that id, 0 if none
FindIndex(props, id) ==
    IF \E i \in 1..Len(props) : props[i].id = id
    THEN CHOOSE i \in 1..Len(props) :
            /\ props[i].id = id
            /\ \A j \in 1..(i - 1) : props[j].id # id
    ELSE 0

Includes(s, x) == \E i \in 1..Len(s) : s[i] = x

\* the value of an expression evaluated once, given as the one-element set {e}
Once(S) == CHOOSE x \in S : TRUE

RECURSIVE Flatten(_)
Flatten(ss) == IF ss = <<>> THEN <<>> ELSE Head(ss) \o Flatten(Tail(ss))

-----------------------------------------------------------------------------
(* utils/validation.ts: structural guards *)

\* getNestingDepth giving up one level early
RECURSIVE getNestingDepthLowCap(_, _, _)
getNestingDepthLowCap(propertyId, allProperties, currentDepth) ==
    IF currentDepth >= MAX_NESTING_DEPTH - 1 THEN MAX_NESTING_DEPTH
    ELSE LET Step(i) ==
                 IF i = 0 \/ IsRoot(allProperties[i]) THEN currentDepth
                 ELSE getNestingDepthLowCap(allProperties[i].parentId, allProperties,
                                            currentDepth + 1)
         IN  Once({Step(i) : i \in {FindIndex(allProperties, propertyId)}})

RECURSIVE getNestingDepth(_, _, _)
getNestingDepth(propertyId, allProperties, currentDepth) ==
    IF currentDepth >= MAX_NESTING_DEPTH THEN MAX_NESTING_DEPTH
    ELSE LET Step(i) ==
                 IF i = 0 \/ IsRoot(allProperties[i]) THEN currentDepth
                 ELSE getNestingDepth(allProperties[i].parentId, allProperties,
                                      currentDepth + 1)
         IN  Once({Step(i) : i \in {FindIndex(allProperties, propertyId)}})

RECURSIVE getParentChain(_, _, _)
getParentChain(propertyId, allProperties, chain) ==
    LET i == FindIndex(allProperties, propertyId) IN
    IF i = 0 \/ IsRoot(allProperties[i]) THEN chain
    ELSE IF Includes(chain, allProperties[i].parentId)
         THEN Append(chain, allProperties[i].parentId)
         ELSE getParentChain(allProperties[i].parentId, allProperties,
                             Append(chain, allProperties[i].parentId))

wouldCreateCircularReference(parentId, propertyId, allProperties) ==
    LET parentChain == getParentChain(parentId, allProperties, <<>>) IN
    Includes(parentChain, propertyId) \/ propertyId = parentId

-----------------------------------------------------------------------------
(* JavaScript text: characters, Number(text), JSON.parse(text).              *)
(* Texts are over letters, digits, blank and the punctuation of JSON; they   *)
(* hold no exponent, no hexadecimal number, no escape and no repeated member *)
(* name, so those parts of the grammars are left out.                        *)

Char(s, i) == SubSeq(s, i, i)

Digits == {"0", "1", "2", "3", "4", "5", "6", "7", "8", "9"}

LowerLetters ==
    <<"a", "b", "c", "d", "e", "f", "g", "h", "i", "j", "k", "l", "m",
      "n", "o", "p", "q", "r", "s", "t", "u", "v", "w", "x", "y", "z">>

UpperLetters ==
    <<"A", "B", "C", "D", "E", "F", "G", "H", "I", "J", "K", "L", "M",
      "N", "O", "P", "Q", "R", "S", "T", "U", "V", "W", "X", "Y", "Z">>

Letters == {LowerLetters[i] : i \in 1..26} \cup {UpperLetters[i] : i \in 1..26}

\* String.prototype.toLowerCase
RECURSIVE ToLowerCase(_)
ToLowerCase(s) ==
    IF s = "" THEN ""
    ELSE LET c == Char(s, 1)
             lower == IF \E i \in 1..26 : UpperLetters[i] = c
                      THEN LowerLetters[CHOOSE i \in 1..26 : UpperLetters[i] = c]
                      ELSE c
         IN  lower \o ToLowerCase(SubSeq(s, 2, Len(s)))

StartsWith(s, prefix) == Len(s) >= Len(prefix) /\ SubSeq(s, 1, Len(prefix)) = prefix

EndsWith(s, suffix) ==
    Len(s) >= Len(suffix) /\ SubSeq(s, Len(s) - Len(suffix) + 1, Len(s)) = suffix

\* position of the first c in s at or after i, 0 if there is none
IndexFrom(s, c, i) ==
    IF \E j \in i..Len(s) : Char(s, j) = c
    THEN CHOOSE j \in i..Len(s) : Char(s, j) = c /\ \A k \in i..(j - 1) : Char(s, k) # c
    ELSE 0

AllDigits(s) == \A i \in 1..Len(s) : Char(s, i) \in Digits

\* s.replace(/^0+/, '')
RECURSIVE StripLeadingZeros(_)
StripLeadingZeros(s) ==
    IF Len(s) > 0 /\ Char(s, 1) = "0" THEN StripLeadingZeros(SubSeq(s, 2, Len(s))) ELSE s

RECURSIVE StripTrailingZeros(_)
StripTrailingZeros(s) ==
    IF Len(s) > 0 /\ Char(s, Len(s)) = "0"
    THEN StripTrailingZeros(SubSeq(s, 1, Len(s) - 1)) ELSE s

NaN == <<"number", "NaN">>

\* the number written as sign, integer digits and fraction digits, printed as
\* String(number) prints it
NumberOf(negative, int, frac) ==
    LET i == IF StripLeadingZeros(int) = "" THEN "0" ELSE StripLeadingZeros(int)
        f == StripTrailingZeros(frac)
        magnitude == IF f = "" THEN i ELSE i \o "." \o f
    IN  <<"number", IF negative /\ magnitude # "0" THEN "-" \o magnitude ELSE magnitude>>

\* an unsigned decimal literal: digits, digits.digits, digits. or .digits
UnsignedDecimal(s) ==
    LET dot == IndexFrom(s, ".", 1)
        int == IF dot = 0 THEN s ELSE SubSeq(s, 1, dot - 1)
        frac == IF dot = 0 THEN "" ELSE SubSeq(s, dot + 1, Len(s))
    IN  /\ AllDigits(int) /\ AllDigits(frac)
        /\ int \o frac # ""

\* Number(text)
StringToNumber(text) ==
    LET t == Trim(text)
        signed == Len(t) > 0 /\ Char(t, 1) \in {"-", "+"}
        body == IF signed THEN SubSeq(t, 2, Len(t)) ELSE t
        dot == IndexFrom(body, ".", 1)
    IN  IF t = "" THEN <<"number", "0">>
        ELSE IF ~UnsignedDecimal(body) THEN NaN
        ELSE NumberOf(signed /\ Char(t, 1) = "-",
                      IF dot = 0 THEN body ELSE SubSeq(body, 1, dot - 1),
                      IF dot = 0 THEN "" ELSE SubSeq(body, dot + 1, Len(body)))

\* JSON.parse: the outcome of reading one value of s from position i on
Failed == [ok |-> FALSE]

RECURSIVE SkipBlanks(_, _)
SkipBlanks(s, i) == IF i <= Len(s) /\ Char(s, i) = " " THEN SkipBlanks(s, i + 1) ELSE i

\* the end of the number token that starts at i
RECURSIVE NumberEnd(_, _)
NumberEnd(s, i) ==
    IF i <= Len(s) /\ Char(s, i) \in Digits \cup {"-", "+", "."}
    THEN NumberEnd(s, i + 1) ELSE i

\* the JSON number grammar: -? (0 | [1-9] digit*) (. digit+)?
JSONNumber(token) ==
    LET negative == StartsWith(token, "-")
        body == IF negative THEN SubSeq(token, 2, Len(token)) ELSE token
        dot == IndexFrom(body, ".", 1)
        int == IF dot = 0 THEN body ELSE SubSeq(body, 1, dot - 1)
        frac == IF dot = 0 THEN "" ELSE SubSeq(body, dot + 1, Len(body))
    IN  /\ int # "" /\ AllDigits(int) /\ (Len(int) > 1 => Char(int, 1) # "0")
        /\ AllDigits(frac) /\ (dot # 0 => frac # "")

RECURSIVE ParseValue(_, _)
RECURSIVE ParseMembers(_, _, _)
RECURSIVE ParseElements(_, _, _)

\* the members of an object from position i on, text holding those read so far
ParseMembers(s, i, text) ==
    LET k == SkipBlanks(s, i)
        close == IndexFrom(s, "\"", k + 1)
        colon == SkipBlanks(s, close + 1)
        After(v) ==
            LET j == SkipBlanks(s, v.next)
                member == text \o SubSeq(s, k, close) \o ":" \o v.text
            IN  IF ~v.ok \/ j > Len(s) THEN Failed
                ELSE IF Char(s, j) = "}"
                     THEN [ok |-> TRUE, next |-> j + 1, tag |-> "object", text |-> member \o "}"]
                ELSE IF Char(s, j) = "," THEN ParseMembers(s, j + 1, member \o ",")
                ELSE Failed
    IN  IF k > Len(s) \/ Char(s, k) # "\"" \/ close = 0 THEN Failed
        ELSE IF colon > Len(s) \/ Char(s, colon) # ":" THEN Failed
        ELSE Once({After(v) : v \in {ParseValue(s, colon + 1)}})

\* the elements of an array from position i on, text holding those read so far
ParseElements(s, i, text) ==
    LET After(v) ==
            LET j == SkipBlanks(s, v.next)
                element == text \o v.text
            IN  IF ~v.ok \/ j > Len(s) THEN Failed
                ELSE IF Char(s, j) = "]"
                     THEN [ok |-> TRUE, next |-> j + 1, tag |-> "array", text |-> element \o "]"]
                ELSE IF Char(s, j) = "," THEN ParseElements(s, j + 1, element \o ",")
                ELSE Failed
    IN  Once({After(v) : v \in {ParseValue(s, i)}})

ParseValue(s, i) ==
    LET j == SkipBlanks(s, i)
        c == Char(s, j)
        inner == SkipBlanks(s, j + 1)
        close == IndexFrom(s, "\"", j + 1)
        numberEnd == NumberEnd(s, j)
        token == SubSeq(s, j, numberEnd - 1)
        Literal(word, tag) ==
            IF j + Len(word) - 1 <= Len(s) /\ SubSeq(s, j, j + Len(word) - 1) = word
            THEN [ok |-> TRUE, next |-> j + Len(word), tag |-> tag, text |-> word]
            ELSE Failed
    IN  IF j > Len(s) THEN Failed
        ELSE IF c = "{"
             THEN IF inner <= Len(s) /\ Char(s, inner) = "}"
                  THEN [ok |-> TRUE, next |-> inner + 1, tag |-> "object", text |-> "{}"]
                  ELSE ParseMembers(s, j + 1, "{")
        ELSE IF c = "["
             THEN IF inner <= Len(s) /\ Char(s, inner) = "]"
                  THEN [ok |-> TRUE, next |-> inner + 1, tag |-> "array", text |-> "[]"]
                  ELSE ParseElements(s, j + 1, "[")
        ELSE IF c = "\""
             THEN IF close = 0 THEN Failed
                  ELSE [ok |-> TRUE, next |-> close + 1, tag |-> "string",
                        text |-> SubSeq(s, j, close)]
        ELSE IF c \in Digits \cup {"-"}
             THEN IF JSONNumber(token)
                  THEN [ok |-> TRUE, next |-> numberEnd, tag |-> "number",
                        text |-> StringToNumber(token)[2]]
                  ELSE Failed
        ELSE IF c = "t" THEN Literal("true", "boolean")
        ELSE IF c = "f" THEN Literal("false", "boolean")
        ELSE IF c = "n" THEN Literal("null", "null")
        ELSE Failed

SyntaxError == <<"<SyntaxError>", "">>

\* JSON.parse(text): the value, or SyntaxError when it throws
JSONParse(text) ==
    LET Value(v) ==
            IF ~v.ok \/ SkipBlanks(text, v.next) <= Len(text) THEN SyntaxError
            ELSE IF v.tag = "string" THEN <<"string", SubSeq(v.text, 2, Len(v.text) - 1)>>
            ELSE <<v.tag, v.text>>
    IN  Once({Value(v) : v \in {ParseValue(text, 1)}})

-----------------------------------------------------------------------------
(* utils/schemaTransform.ts: properties -> schema *)

\* The result of a recursion that exhausts the call stack (RangeError)
Overflow == [overflow |-> TRUE]

\* obj[k] = v on an insertion-ordered map: an existing key keeps its place
MapSet(m, k, v) ==
    IF \E i \in 1..Len(m) : m[i].k = k
    THEN [i \in 1..Len(m) |-> IF m[i].k = k THEN [k |-> k, v |-> v] ELSE m[i]]
    ELSE Append(m, [k |-> k, v |-> v])

RECURSIVE MapFromEntries(_)
MapFromEntries(entries) ==
    IF entries = <<>> THEN <<>>
    ELSE LET n == Len(entries) IN
         MapSet(MapFromEntries(SubSeq(entries, 1, n - 1)), entries[n].k, entries[n].v)

\* the keys pushed onto a required array when the required flag is not looked at
RequiredKeysOfAll(props) == [i \in 1..Len(props) |-> props[i].key]

\* the keys pushed onto a required array, in order
RequiredKeys(props) ==
    LET req == SelectSeq(props, LAMBDA p : p.required) IN
    [i \in 1..Len(req) |-> req[i].key]

\* fuel is the call-stack depth left; the code has no such parameter
RECURSIVE propertyToSchemaProperty(_, _, _)
propertyToSchemaProperty(property, allProperties, fuel) ==
    IF fuel = 0 THEN Overflow
    ELSE
    LET base == [key |-> property.key, type |-> property.type]
        withDescription ==
            IF property.description # "" /\ property.description # Null
            THEN base @@ [description |-> property.description] ELSE base
        withDefault ==
            IF property.value \notin {VNull, VUndefined, VEmptyString}
            THEN withDescription @@ [default |-> property.value] ELSE withDescription
        nestedProperties ==
            IF property.type = "object"
            THEN SelectSeq(allProperties, LAMBDA p : p.parentId = property.id /\ HasKey(p))
            ELSE <<>>
        required == RequiredKeys(nestedProperties)
        WithProperties(nestedSchemas) ==
            LET nestedMap ==
                    MapFromEntries([i \in 1..Len(nestedProperties) |->
                        [k |-> nestedProperties[i].key, v |-> nestedSchemas[i]]])
            IN  IF \E i \in 1..Len(nestedProperties) : nestedSchemas[i] = Overflow
                THEN Overflow
                ELSE IF Len(nestedProperties) > 0
                THEN IF required # <<>>
                     THEN withDefault @@ [properties |-> nestedMap, required |-> required]
                     ELSE withDefault @@ [properties |-> nestedMap]
                ELSE withDefault
        WithItems(withProperties, itemsSchema) ==
            IF withProperties = Overflow \/ itemsSchema = Overflow THEN Overflow
            ELSE withProperties @@ [items |-> itemsSchema]
        withProperties ==
            Once({WithProperties(nestedSchemas) :
                  nestedSchemas \in {[i \in 1..Len(nestedProperties) |->
                      propertyToSchemaProperty(nestedProperties[i], allProperties, fuel - 1)]}})
    IN  IF property.type = "array" /\ property.items # <<>>
        THEN Once({WithItems(wp, itemsSchema) :
                   wp \in {withProperties},
                   itemsSchema \in {propertyToSchemaProperty(property.items[1],
                                                              allProperties, fuel - 1)}})
        ELSE withProperties

EmptySchema == [type |-> "object", properties |-> <<>>]

\* the call stack is far deeper than any acyclic collection of the model
StackDepth(props) == Len(props) + 2

propertiesToSchema(props) ==
    LET rootProperties == SelectSeq(props, LAMBDA p : IsRoot(p) /\ HasKey(p))
        required == RequiredKeys(rootProperties)
        Build(schemas) ==
            LET map == MapFromEntries([i \in 1..Len(rootProperties) |->
                          [k |-> rootProperties[i].key, v |-> schemas[i]]])
            IN  IF \E i \in 1..Len(rootProperties) : schemas[i] = Overflow THEN Overflow
                ELSE IF required # <<>>
                THEN [type |-> "object", properties |-> map, required |-> required]
                ELSE [type |-> "object", properties |-> map]
    IN  IF rootProperties = <<>> THEN EmptySchema
        ELSE Once({Build(schemas) :
                   schemas \in {[i \in 1..Len(rootProperties) |->
                       propertyToSchemaProperty(rootProperties[i], props, StackDepth(props))]}})

-----------------------------------------------------------------------------
(* utils/schemaTransform.ts: formatJSON = JSON.stringify(json, null, 2) *)

RECURSIVE Join(_, _)
Join(strs, sep) ==
    IF strs = <<>> THEN ""
    ELSE IF Len(strs) = 1 THEN strs[1]
    ELSE strs[1] \o sep \o Join(Tail(strs), sep)

RECURSIVE Indent(_)
Indent(level) == IF level = 0 THEN "" ELSE "  " \o Indent(level - 1)

Quote(s) == "\"" \o s \o "\""

\* a default value: strings are quoted, every other value is its JSON text
\* (the containers the model stores are the empty ones, printed {} and [])
StringifyValue(v) == IF v[1] = "string" THEN Quote(v[2]) ELSE v[2]

StringifyArray(strs, level) ==
    IF strs = <<>> THEN "[]"
    ELSE "[\n"
         \o Join([i \in 1..Len(strs) |-> Indent(level + 1) \o Quote(strs[i])], ",\n")
         \o "\n" \o Indent(level) \o "]"

StringifyObject(members, level) ==
    IF members = <<>> THEN "{}"
    ELSE "{\n"
         \o Join([i \in 1..Len(members) |->
                    Indent(level + 1) \o Quote(members[i].k) \o ": " \o members[i].v], ",\n")
         \o "\n" \o Indent(level) \o "}"

RECURSIVE StringifyNode(_, _)
StringifyNode(node, level) ==
    LET Member(name, text) == <<[k |-> name, v |-> text]>>
        Opt(name, text) == IF name \in DOMAIN node THEN Member(name, text) ELSE <<>>
        map == node.properties
        mapText ==
            StringifyObject([i \in 1..Len(map) |->
                [k |-> map[i].k, v |-> StringifyNode(map[i].v, level + 2)]], level + 1)
    IN  StringifyObject(
            Opt("key", Quote(node.key))
            \o Opt("type", Quote(node.type))
            \o Opt("description", Quote(node.description))
            \o Opt("default", StringifyValue(node.default))
            \o Opt("properties", mapText)
            \o Opt("required", StringifyArray(node.required, level + 1))
            \o Opt("items", StringifyNode(node.items, level + 1)),
            level)

\* a root schema has its members in the order type, properties, required
StringifySchema(s) ==
    LET map == s.properties
        mapText ==
            StringifyObject([i \in 1..Len(map) |->
                [k |-> map[i].k, v |-> StringifyNode(map[i].v, 2)]], 1)
    IN  StringifyObject(
            <<[k |-> "type", v |-> Quote(s.type)], [k |-> "properties", v |-> mapText]>>
            \o (IF "required" \in DOMAIN s
                THEN <<[k |-> "required", v |-> StringifyArray(s.required, 1)]>>
                ELSE <<>>),
            0)

formatJSON(json) == StringifySchema(json)

-----------------------------------------------------------------------------
(* utils/validation.ts: keys, types and values *)

VALID_TYPES == <<"string", "number", "boolean", "object", "array", "null">>

\* KEY_PATTERN = /^[a-zA-Z_$][a-zA-Z0-9_$]*$/
KEY_PATTERN(s) ==
    /\ Len(s) >= 1
    /\ Char(s, 1) \in Letters \cup {"_", "$"}
    /\ \A i \in 2..Len(s) : Char(s, i) \in Letters \cup Digits \cup {"_", "$"}

\* the error message, or Null
validateKey(key, existingKeys, currentId) ==
    LET trimmedKey == Trim(key) IN
    IF key = Null \/ key = "" \/ trimmedKey = "" THEN "Key is required"
    ELSE IF ~KEY_PATTERN(trimmedKey)
    THEN "Key must start with a letter, underscore, or $ and contain only alphanumeric characters, underscores, or $"
    ELSE IF \E i \in 1..Len(existingKeys) :
                existingKeys[i].id # currentId /\ existingKeys[i].key = trimmedKey
    THEN "Key already exists at this level"
    ELSE Null

validateType(type) ==
    IF type = Null \/ type = "" THEN "Type is required"
    ELSE IF ~Includes(VALID_TYPES, type)
    THEN "Type must be one of: " \o Join(VALID_TYPES, ", ")
    ELSE Null

VTrue == <<"boolean", "true">>
VFalse == <<"boolean", "false">>
VEmptyArray == <<"array", "[]">>
VEmptyObject == <<"object", "{}">>

\* String(value); the arrays of the model are flat and their strings hold no comma
ToStringJS(v) ==
    IF v[1] = "object" THEN "[object Object]"
    ELSE IF v[1] = "undefined" THEN "undefined"
    ELSE IF v[1] = "array"
    THEN LET inner == SubSeq(v[2], 2, Len(v[2]) - 1)
             kept == SelectSeq([i \in 1..Len(inner) |-> Char(inner, i)], LAMBDA c : c # "\"")
         IN  Join(kept, "")
    ELSE v[2]

\* Number(value)
ToNumber(v) ==
    IF v[1] = "number" THEN v
    ELSE IF v[1] = "boolean" THEN <<"number", IF v = VTrue THEN "1" ELSE "0">>
    ELSE IF v[1] = "null" THEN <<"number", "0">>
    ELSE IF v[1] \in {"undefined", "object"} THEN NaN
    ELSE StringToNumber(ToStringJS(v))

\* Boolean(value)
ToBoolean(v) ==
    IF v[1] = "boolean" THEN v
    ELSE IF v \in {VNull, VUndefined, VEmptyString, NaN, <<"number", "0">>} THEN VFalse
    ELSE VTrue

validateValue(value, type) ==
    IF value \in {VNull, VUndefined, VEmptyString} THEN TRUE
    ELSE IF type = "string" THEN value[1] = "string"
    ELSE IF type = "number" THEN value[1] = "number" \/ ToNumber(value) # NaN
    ELSE IF type = "boolean"
    THEN value[1] = "boolean" \/ value = <<"string", "true">> \/ value = <<"string", "false">>
    ELSE IF type = "object" THEN value[1] = "object"
    ELSE IF type = "array" THEN value[1] = "array"
    ELSE IF type = "null" THEN value = VNull
    ELSE FALSE

\* /^-?\d*\.?\d+$/ (the exponent part of the pattern matches no text of the model)
LooseNumberPattern(s) ==
    LET body == IF StartsWith(s, "-") THEN SubSeq(s, 2, Len(s)) ELSE s
        dot == IndexFrom(body, ".", 1)
        int == IF dot = 0 THEN "" ELSE SubSeq(body, 1, dot - 1)
        frac == IF dot = 0 THEN body ELSE SubSeq(body, dot + 1, Len(body))
    IN  AllDigits(int) /\ AllDigits(frac) /\ frac # ""

\* the error message, or Null
validateInputValue(inputValue, type) ==
    LET trimmed == Trim(inputValue)
        numValue == StringToNumber(trimmed)
        parsed == JSONParse(trimmed)
    IN  IF inputValue = "" \/ trimmed = "" THEN Null
        ELSE IF type = "string" THEN Null
        ELSE IF type = "number"
        THEN IF numValue = NaN THEN "Value must be a valid number"
             ELSE IF /\ numValue[2] # trimmed
                     /\ numValue[2] # StripLeadingZeros(trimmed)
                     /\ trimmed # "-" \o numValue[2]
                     /\ ~LooseNumberPattern(trimmed)
             THEN "Value must be a valid number"
             ELSE Null
        ELSE IF type = "boolean"
        THEN IF ToLowerCase(trimmed) \notin {"true", "false"}
             THEN "Value must be either \"true\" or \"false\""
             ELSE Null
        ELSE IF type = "object"
        THEN IF StartsWith(trimmed, "{") /\ ~EndsWith(trimmed, "}") THEN Null
             ELSE IF StartsWith(trimmed, "{") /\ EndsWith(trimmed, "}")
             THEN IF parsed = SyntaxError THEN "Value must be a valid JSON object"
                  ELSE IF parsed[1] # "object"
                  THEN "Value must be a valid JSON object (not an array)"
                  ELSE Null
             ELSE "Value must be a valid JSON object (start with {)"
        ELSE IF type = "array"
        THEN IF StartsWith(trimmed, "[") /\ ~EndsWith(trimmed, "]") THEN Null
             ELSE IF StartsWith(trimmed, "[") /\ EndsWith(trimmed, "]")
             THEN IF parsed = SyntaxError \/ parsed[1] # "array"
                  THEN "Value must be a valid JSON array"
                  ELSE Null
             ELSE Null
        ELSE IF type = "null"
        THEN IF ToLowerCase(trimmed) # "null" /\ trimmed # ""
             THEN "Value must be empty or \"null\""
             ELSE Null
        ELSE "Unknown type: " \o type

\* value.split(',')
RECURSIVE Split(_)
Split(s) ==
    LET comma == IndexFrom(s, ",", 1) IN
    IF comma = 0 THEN <<s>>
    ELSE <<SubSeq(s, 1, comma - 1)>> \o Split(SubSeq(s, comma + 1, Len(s)))

\* /^-?\d+\.?\d*$/
ItemNumberPattern(s) ==
    LET body == IF StartsWith(s, "-") THEN SubSeq(s, 2, Len(s)) ELSE s
        dot == IndexFrom(body, ".", 1)
        int == IF dot = 0 THEN body ELSE SubSeq(body, 1, dot - 1)
        frac == IF dot = 0 THEN "" ELSE SubSeq(body, dot + 1, Len(body))
    IN  AllDigits(int) /\ AllDigits(frac) /\ int # ""

\* the JSON text of a value inside an array
ElementText(v) == IF v[1] = "string" THEN Quote(v[2]) ELSE v[2]

parseCommaSeparatedArray(value) ==
    LET parsed == JSONParse(value)
        Item(item) ==
            LET trimmed == Trim(item)
                json == JSONParse(trimmed)
            IN  IF StartsWith(trimmed, "{") \/ StartsWith(trimmed, "[")
                THEN IF json = SyntaxError THEN <<"string", trimmed>> ELSE json
                ELSE IF ItemNumberPattern(trimmed) /\ StringToNumber(trimmed) # NaN
                THEN StringToNumber(trimmed)
                ELSE IF ToLowerCase(trimmed) = "true" THEN VTrue
                ELSE IF ToLowerCase(trimmed) = "false" THEN VFalse
                ELSE <<"string", trimmed>>
        pieces == Split(value)
    IN  IF value = "" \/ Trim(value) = "" THEN VEmptyArray
        ELSE IF parsed # SyntaxError /\ parsed[1] = "array" THEN parsed
        ELSE <<"array",
               "[" \o Join([i \in 1..Len(pieces) |-> ElementText(Item(pieces[i]))], ",") \o "]">>

convertValue(value, type) ==
    LET parsed == JSONParse(value[2])
        num == ToNumber(value)
    IN  IF value \in {VNull, VUndefined, VEmptyString} THEN VNull
        ELSE IF type = "string" THEN <<"string", ToStringJS(value)>>
        ELSE IF type = "number" THEN IF num = NaN THEN VNull ELSE num
        ELSE IF type = "boolean"
        THEN IF value[1] = "boolean" THEN value
             ELSE IF value = <<"string", "true">> THEN VTrue
             ELSE IF value = <<"string", "false">> THEN VFalse
             ELSE ToBoolean(value)
        ELSE IF type = "object"
        THEN IF value[1] = "string"
             THEN IF parsed = SyntaxError THEN VNull ELSE parsed
             ELSE IF value[1] = "object" THEN value
             ELSE VNull
        ELSE IF type = "array"
        THEN IF value[1] = "array" THEN value
             ELSE IF value[1] = "string"
             THEN IF parsed # SyntaxError /\ parsed[1] = "array" THEN parsed
                  ELSE parseCommaSeparatedArray(value[2])
             ELSE VNull
        ELSE IF type = "null" THEN VNull
        ELSE value

\* a record with no field
NoErrors == [f \in {} |-> ""]

\* the record of field errors
validateProperty(property, allProperties) ==
    LET siblings ==
            SelectSeq(allProperties,
                      LAMBDA p : p.parentId = property.parentId /\ p.id # property.id)
        keyError == validateKey(property.key, siblings, property.id)
        typeError == validateType(property.type)
        mismatch == "Value does not match type " \o property.type
        inputError == validateInputValue(property.value[2], property.type)
        converted == convertValue(property.value, property.type)
        valueError ==
            IF property.value \in {VNull, VUndefined, VEmptyString} THEN Null
            ELSE IF property.value[1] = "string" /\ property.type # "string"
            THEN IF inputError # Null THEN inputError
                 ELSE IF converted = VNull /\ Trim(property.value[2]) # "" THEN mismatch
                 ELSE IF ~validateValue(converted, property.type) THEN mismatch
                 ELSE Null
            ELSE IF ~validateValue(property.value, property.type) THEN mismatch
            ELSE Null
        nestingError ==
            IF ~IsRoot(property)
               /\ getNestingDepth(property.parentId, allProperties, 0) >= MAX_NESTING_DEPTH
            THEN "Maximum nesting depth of " \o ToString(MAX_NESTING_DEPTH) \o " reached"
            ELSE Null
        Field(name, error) == IF error = Null THEN NoErrors ELSE [f \in {name} |-> error]
    IN  Field("key", keyError) @@ Field("type", typeError)
        @@ Field("nesting", nestingError) @@ Field("value", valueError)

\* the mapping from property id to its errors, for the properties that have any;
\* a later failing property with the same id overwrites an earlier one
validateAllProperties(props) ==
    LET Collected(errors) ==
            LET failing == {i \in 1..Len(props) : DOMAIN errors[i] # {}}
                Last(id) == CHOOSE i \in failing :
                                props[i].id = id
                                /\ \A j \in failing : props[j].id = id => j <= i
            IN  [id \in {props[i].id : i \in failing} |-> errors[Last(id)]]
    IN  Once({Collected(errors) :
                errors \in {[i \in 1..Len(props) |-> validateProperty(props[i], props)]}})

-----------------------------------------------------------------------------
(* store/useSchemaStore.ts *)

PropertyFields ==
    {"id", "key", "description", "type", "value", "required", "parentId",
     "properties", "items"}

\* JSON.parse(schemaString) succeeds on every text JSON.stringify produced and on "{}"
JSONParses(str) == str # ""

\* what generateSchema computes from a property collection
generateSchema(props) ==
    LET validProperties == SelectSeq(props, HasKey)
        Result(newSchema, newString) ==
            [schema |-> newSchema, schemaString |-> newString,
             isValid |-> JSONParses(newString),
             schemaData |-> IF JSONParses(newString) THEN <<newSchema>> ELSE <<>>]
        Format(newSchema) ==
            IF newSchema = Overflow THEN Overflow
            ELSE Once({Result(newSchema, newString) : newString \in {formatJSON(newSchema)}})
    IN  Once({Format(newSchema) : newSchema \in {propertiesToSchema(validProperties)}})

\* the store after set({properties: props}) followed by get().generateSchema()
SetAndGenerate(props, selected, c) ==
    \E g \in {generateSchema(props)} :
    /\ properties' = props
    /\ selectedPropertyId' = selected
    /\ IF g = Overflow
       THEN /\ UNCHANGED <<schema, schemaString, isValid, schemaData>>
            /\ call' = c @@ [threw |-> "RangeError"]
       ELSE /\ schema' = g.schema
            /\ schemaString' = g.schemaString
            /\ isValid' = g.isValid
            /\ schemaData' = g.schemaData
            /\ call' = c @@ [threw |-> "no"]
    /\ pre' = store

newProperty(id, parentId) ==
    [id |-> id, key |-> "", description |-> "", type |-> "string", value |-> VNull,
     required |-> FALSE, parentId |-> parentId, properties |-> <<>>, items |-> <<>>]

\* addProperty with the generateSchema() call it has commented out
addPropertyAsRegenerating(parentId, op) ==
    LET p == newProperty(IdOf(nextId + 1), parentId) IN
    /\ nextId' = nextId + 1
    /\ SetAndGenerate(Append(properties, p), p.id,
                      [op |-> op, parentId |-> parentId, ret |-> p.id])
    /\ UNCHANGED <<rt, envVars>>

\* addProperty as run on behalf of the store method named op
addPropertyAs(parentId, op) ==
    LET p == newProperty(IdOf(nextId + 1), parentId) IN
    /\ nextId' = nextId + 1
    /\ properties' = Append(properties, p)
    /\ selectedPropertyId' = p.id
    /\ call' = [op |-> op, parentId |-> parentId, ret |-> p.id, threw |-> "no"]
    /\ pre' = store
    /\ UNCHANGED <<schema, schemaString, isValid, schemaData, rt, envVars>>

addProperty(parentId) == addPropertyAs(parentId, "addProperty")

\* {...prop, ...updates}
Merge(prop, updates) ==
    [f \in DOMAIN prop \cup DOMAIN updates |->
        IF f \in DOMAIN updates THEN updates[f] ELSE prop[f]]

\* what updateProperty(id, updates) does to the schema store
updateStore(id, updates) ==
    LET c == [op |-> "updateProperty", id |-> id, updates |-> updates] IN
    \E mapped \in {[i \in 1..Len(properties) |->
                      IF properties[i].id = id THEN Merge(properties[i], updates)
                      ELSE properties[i]]} :
    \E i \in {FindIndex(mapped, id)} :
        IF i # 0 /\ HasKey(mapped[i])
        THEN SetAndGenerate(mapped, selectedPropertyId, c)
        ELSE /\ properties' = mapped
             /\ call' = c @@ [threw |-> "no"]
             /\ pre' = store
             /\ UNCHANGED <<selectedPropertyId, schema, schemaString, isValid, schemaData>>

\* updateProperty calling generateSchema whatever the resulting key is
updatePropertyAlwaysGenerating(id, updates) ==
    LET c == [op |-> "updateProperty", id |-> id, updates |-> updates] IN
    \E mapped \in {[i \in 1..Len(properties) |->
                      IF properties[i].id = id THEN Merge(properties[i], updates)
                      ELSE properties[i]]} :
        /\ SetAndGenerate(mapped, selectedPropertyId, c)
        /\ UNCHANGED <<nextId, rt, envVars>>

updateProperty(id, updates) ==
    /\ updateStore(id, updates)
    /\ UNCHANGED <<nextId, rt, envVars>>

\* findNestedIds' result when the recursion exhausts the call stack (RangeError)
NoIds == <<"<RangeError>">>

\* findNestedIds without its recursive step: direct children only
findNestedIdsDirect(parentId, props, fuel) ==
    LET nested == SelectSeq(props, LAMBDA p : p.parentId = parentId) IN
    [i \in 1..Len(nested) |-> nested[i].id]

\* fuel is the call-stack depth left; the code has no such parameter
RECURSIVE findNestedIds(_, _, _)
findNestedIds(parentId, props, fuel) ==
    IF fuel = 0 THEN NoIds
    ELSE LET nested == SelectSeq(props, LAMBDA p : p.parentId = parentId)
             nestedIds == [i \in 1..Len(nested) |-> nested[i].id]
             Collect(deeper) ==
                 IF \E i \in 1..Len(nestedIds) : deeper[i] = NoIds THEN NoIds
                 ELSE nestedIds \o Flatten(deeper)
         IN  Once({Collect(deeper) :
                   deeper \in {[i \in 1..Len(nestedIds) |->
                                  findNestedIds(nestedIds[i], props, fuel - 1)]}})

\* removeProperty regenerating the schema only when it removed a keyed property
removePropertyLazily(id) ==
    LET c == [op |-> "removeProperty", id |-> id] IN
    \E found \in {findNestedIds(id, properties, StackDepth(properties))} :
    LET idsToRemove == <<id>> \o found
        filtered == SelectSeq(properties, LAMBDA p : ~Includes(idsToRemove, p.id))
        selection == IF selectedPropertyId = id THEN Null ELSE selectedPropertyId
    IN  /\ IF found = NoIds
           THEN /\ call' = c @@ [threw |-> "RangeError"]
                /\ pre' = store
                /\ UNCHANGED <<properties, selectedPropertyId, schema, schemaString,
                               isValid, schemaData>>
           ELSE IF \E i \in 1..Len(properties) : properties[i].id = id /\ HasKey(properties[i])
                THEN SetAndGenerate(filtered, selection, c)
                ELSE /\ properties' = filtered
                     /\ selectedPropertyId' = selection
                     /\ call' = c @@ [threw |-> "no"]
                     /\ pre' = store
                     /\ UNCHANGED <<schema, schemaString, isValid, schemaData>>
        /\ UNCHANGED <<nextId, rt, envVars>>

removeProperty(id) ==
    LET c == [op |-> "removeProperty", id |-> id] IN
    \E found \in {findNestedIds(id, properties, StackDepth(properties))} :
    LET idsToRemove == <<id>> \o found IN
        /\ IF found = NoIds
           THEN \* the set() callback throws: nothing is written, generateSchema is not reached
                /\ call' = c @@ [threw |-> "RangeError"]
                /\ pre' = store
                /\ UNCHANGED <<properties, selectedPropertyId, schema, schemaString,
                               isValid, schemaData>>
           ELSE SetAndGenerate(
                    SelectSeq(properties, LAMBDA p : ~Includes(idsToRemove, p.id)),
                    IF selectedPropertyId = id THEN Null ELSE selectedPropertyId,
                    c)
        /\ UNCHANGED <<nextId, rt, envVars>>

\* addNestedProperty with the depth guard off by one and the cycle test on the chain only
addNestedPropertyOffByOne(parentId) ==
    LET refused ==
            /\ call' = [op |-> "addNestedProperty", parentId |-> parentId,
                        ret |-> Null, threw |-> "no"]
            /\ pre' = store
            /\ UNCHANGED <<properties, selectedPropertyId, schema, schemaString,
                           isValid, schemaData, nextId, rt, envVars>>
    IN  IF FindIndex(properties, parentId) = 0 THEN refused
        ELSE IF getNestingDepth(parentId, properties, 0) > 10 THEN refused
        ELSE IF Includes(getParentChain(parentId, properties, <<>>), parentId) THEN refused
        ELSE addPropertyAs(parentId, "addNestedProperty")

addNestedProperty(parentId) ==
    LET refused ==
            /\ call' = [op |-> "addNestedProperty", parentId |-> parentId,
                        ret |-> Null, threw |-> "no"]
            /\ pre' = store
            /\ UNCHANGED <<properties, selectedPropertyId, schema, schemaString,
                           isValid, schemaData, nextId, rt, envVars>>
    IN  IF FindIndex(properties, parentId) = 0 THEN refused
        ELSE IF getNestingDepth(parentId, properties, 0) >= 10 THEN refused
        ELSE IF wouldCreateCircularReference(parentId, parentId, properties) THEN refused
        ELSE addPropertyAs(parentId, "addNestedProperty")

clearSchema ==
    /\ properties' = <<>>
    /\ selectedPropertyId' = Null
    /\ schema' = EmptySchema
    /\ schemaString' = "{}"
    /\ call' = [op |-> "clearSchema", threw |-> "no"]
    /\ pre' = store
    /\ UNCHANGED <<isValid, schemaData, nextId, rt, envVars>>

\* copySchemaToClipboard(): ret is what the promise resolves to, writeText holds the
\* text handed to navigator.clipboard.writeText, which resolves or rejects
copySchemaToClipboard ==
    /\ IF schemaString = "" \/ schemaString = "{}" \/ ~isValid
       THEN call' = [op |-> "copySchemaToClipboard", ret |-> FALSE,
                     writeText |-> <<>>, threw |-> "no"]
       ELSE \E resolves \in BOOLEAN :
               call' = [op |-> "copySchemaToClipboard", ret |-> resolves,
                        writeText |-> <<schemaString>>, threw |-> "no"]
    /\ pre' = store
    /\ UNCHANGED <<properties, selectedPropertyId, schema, schemaString, isValid,
                   schemaData, nextId, rt, envVars>>

setSelectedProperty(id) ==
    /\ selectedPropertyId' = id
    /\ call' = [op |-> "setSelectedProperty", id |-> id, threw |-> "no"]
    /\ pre' = store
    /\ UNCHANGED <<properties, schema, schemaString, isValid, schemaData, nextId, rt, envVars>>

\* an array slot holding undefined
UndefinedEntry == [undefined |-> TRUE]

\* Array.prototype.splice(index, 1) and splice(index, 0, x), indices >= 0
SpliceOut(arr, index) ==
    IF index < Len(arr)
    THEN SubSeq(arr, 1, index) \o SubSeq(arr, index + 2, Len(arr))
    ELSE arr

SpliceIn(arr, index, x) ==
    LET at == IF index < Len(arr) THEN index ELSE Len(arr) IN
    SubSeq(arr, 1, at) \o <<x>> \o SubSeq(arr, at + 1, Len(arr))

reorderProperties(fromIndex, toIndex, parentId) ==
    LET siblings == SelectSeq(properties, LAMBDA p : p.parentId = parentId)
        otherProperties == SelectSeq(properties, LAMBDA p : p.parentId # parentId)
        moved == IF fromIndex < Len(siblings) THEN siblings[fromIndex + 1]
                 ELSE UndefinedEntry
        reordered == otherProperties \o SpliceIn(SpliceOut(siblings, fromIndex), toIndex, moved)
        c == [op |-> "reorderProperties", fromIndex |-> fromIndex, toIndex |-> toIndex,
              parentId |-> parentId]
    IN  /\ IF moved = UndefinedEntry
           THEN \* generateSchema reads p.key of the undefined slot: TypeError
                /\ properties' = reordered
                /\ call' = c @@ [threw |-> "TypeError"]
                /\ pre' = store
                /\ UNCHANGED <<selectedPropertyId, schema, schemaString, isValid, schemaData>>
           ELSE SetAndGenerate(reordered, selectedPropertyId, c)
        /\ UNCHANGED <<nextId, rt, envVars>>

-----------------------------------------------------------------------------
(* utils/schemaTransform.ts: schema -> properties *)

\* one nested entry of an object-typed schema property
NestedProperty(entry, owner, ownerId, id) ==
    LET nestedSchema == entry.v IN
    [id |-> id,
     key |-> IF "key" \in DOMAIN nestedSchema /\ nestedSchema.key # ""
             THEN nestedSchema.key ELSE entry.k,
     type |-> IF "type" \in DOMAIN nestedSchema /\ nestedSchema.type # ""
              THEN nestedSchema.type ELSE "string",
     description |-> IF "description" \in DOMAIN nestedSchema
                     THEN nestedSchema.description ELSE "",
     value |-> IF "default" \in DOMAIN nestedSchema THEN nestedSchema.default ELSE VNull,
     required |-> "required" \in DOMAIN owner /\ Includes(owner.required, entry.k),
     parentId |-> ownerId,
     properties |-> <<>>,
     items |-> <<>>]

\* the properties one entry of schema.properties contributes, ids taken from n + 1 on
EntryProperties(schemaNode, entry, parentId, n) ==
    LET schemaProperty == entry.v
        id == IdOf(n + 1)
        isObject == /\ "type" \in DOMAIN schemaProperty /\ schemaProperty.type = "object"
                    /\ "properties" \in DOMAIN schemaProperty
        nestedEntries == IF isObject THEN schemaProperty.properties ELSE <<>>
        nestedProperties ==
            [i \in 1..Len(nestedEntries) |->
                NestedProperty(nestedEntries[i], schemaProperty, id, IdOf(n + 1 + i))]
        hasItems == /\ "type" \in DOMAIN schemaProperty /\ schemaProperty.type = "array"
                    /\ "items" \in DOMAIN schemaProperty
        itemsSchema == schemaProperty.items
        items ==
            [id |-> IdOf(n + 2 + Len(nestedEntries)),
             key |-> "item",
             type |-> IF "type" \in DOMAIN itemsSchema /\ itemsSchema.type # ""
                      THEN itemsSchema.type ELSE "string",
             description |-> IF "description" \in DOMAIN itemsSchema
                             THEN itemsSchema.description ELSE "",
             value |-> IF "default" \in DOMAIN itemsSchema THEN itemsSchema.default ELSE VNull,
             required |-> FALSE,
             parentId |-> id,
             properties |-> <<>>,
             items |-> <<>>]
        property ==
            [NestedProperty(entry, schemaNode, parentId, id) EXCEPT
                !.properties = nestedProperties,
                !.items = IF hasItems THEN <<items>> ELSE <<>>]
    IN  [props |-> nestedProperties \o <<property>>,
         next |-> n + 1 + Len(nestedEntries) + (IF hasItems THEN 1 ELSE 0)]

RECURSIVE EntriesToProperties(_, _, _, _)
EntriesToProperties(schemaNode, entries, parentId, n) ==
    IF entries = <<>> THEN [props |-> <<>>, next |-> n]
    ELSE LET first == EntryProperties(schemaNode, Head(entries), parentId, n)
             rest == EntriesToProperties(schemaNode, Tail(entries), parentId, first.next)
         IN  [props |-> first.props \o rest.props, next |-> rest.next]

\* returns the property list and the number of ids handed out, starting after n
schemaToProperties(schemaNode, parentId, n) ==
    IF \/ "type" \notin DOMAIN schemaNode \/ schemaNode.type # "object"
       \/ "properties" \notin DOMAIN schemaNode
    THEN [props |-> <<>>, next |-> n]
    ELSE EntriesToProperties(schemaNode, schemaNode.properties, parentId, n)

-----------------------------------------------------------------------------
(* store/useSchemaStore.ts: loadSchema, restoreProperties *)

\* schemaJson is a schema object, or <<>> for a string JSON.parse rejects
loadSchema(schemaJson) ==
    LET converted == schemaToProperties(schemaJson, Null, nextId) IN
    /\ IF schemaJson = <<>>
       THEN /\ call' = [op |-> "loadSchema", schemaJson |-> schemaJson, threw |-> "no"]
            /\ UNCHANGED <<properties, selectedPropertyId, schema, schemaString, nextId>>
       ELSE /\ properties' = converted.props
            /\ schema' = schemaJson
            /\ schemaString' = formatJSON(schemaJson)
            /\ selectedPropertyId' = Null
            /\ nextId' = converted.next
            /\ call' = [op |-> "loadSchema", schemaJson |-> schemaJson, threw |-> "no"]
    /\ pre' = store
    /\ UNCHANGED <<isValid, schemaData, rt, envVars>>

\* prop.id || generateId() calls generateId
NeedsId(prop) == "id" \notin DOMAIN prop \/ prop.id \in {"", Null}

\* prop.f || dflt for a string field
StringOr(prop, f, dflt) ==
    IF f \in DOMAIN prop /\ prop[f] \notin {"", Null} THEN prop[f] ELSE dflt

\* the normalized copy with value: prop.value || null
NormalizedFalsyValue(savedProperties, i, n) ==
    LET prop == savedProperties[i]
        generated == Cardinality({j \in 1..i : NeedsId(savedProperties[j])})
    IN  [id |-> IF NeedsId(prop) THEN IdOf(n + generated) ELSE prop.id,
         key |-> StringOr(prop, "key", ""),
         description |-> StringOr(prop, "description", ""),
         type |-> StringOr(prop, "type", "string"),
         value |-> IF "value" \in DOMAIN prop /\ prop.value \notin {VUndefined, VEmptyString}
                   THEN prop.value ELSE VNull,
         required |-> "required" \in DOMAIN prop /\ prop.required,
         parentId |-> IF "parentId" \in DOMAIN prop THEN prop.parentId ELSE Null,
         properties |-> IF "properties" \in DOMAIN prop THEN prop.properties ELSE <<>>,
         items |-> <<>>]

\* the normalized copy of savedProperties[i]; ids generated so far are counted from n
Normalized(savedProperties, i, n) ==
    LET prop == savedProperties[i]
        generated == Cardinality({j \in 1..i : NeedsId(savedProperties[j])})
    IN  [id |-> IF NeedsId(prop) THEN IdOf(n + generated) ELSE prop.id,
         key |-> StringOr(prop, "key", ""),
         description |-> StringOr(prop, "description", ""),
         type |-> StringOr(prop, "type", "string"),
         value |-> IF "value" \in DOMAIN prop /\ prop.value # VUndefined
                   THEN prop.value ELSE VNull,
         required |-> "required" \in DOMAIN prop /\ prop.required,
         parentId |-> IF "parentId" \in DOMAIN prop THEN prop.parentId ELSE Null,
         properties |-> IF "properties" \in DOMAIN prop THEN prop.properties ELSE <<>>,
         items |-> <<>>]

restoreProperties(savedProperties) ==
    LET normalizedProperties ==
            [i \in 1..Len(savedProperties) |-> Normalized(savedProperties, i, nextId)]
        generated == Cardinality({j \in 1..Len(savedProperties) : NeedsId(savedProperties[j])})
        validProperties == SelectSeq(normalizedProperties, HasKey)
        newSchema == propertiesToSchema(validProperties)
        c == [op |-> "restoreProperties", savedProperties |-> savedProperties]
    IN  /\ IF savedProperties = <<>>
           THEN /\ call' = c @@ [threw |-> "no"]
                /\ UNCHANGED <<properties, selectedPropertyId, schema, schemaString, nextId>>
           ELSE IF newSchema = Overflow
           THEN \* the RangeError is caught and logged; the ids were consumed
                /\ call' = c @@ [threw |-> "caught"]
                /\ nextId' = nextId + generated
                /\ UNCHANGED <<properties, selectedPropertyId, schema, schemaString>>
           ELSE /\ properties' = normalizedProperties
                /\ selectedPropertyId' = Null
                /\ schema' = newSchema
                /\ schemaString' = formatJSON(newSchema)
                /\ nextId' = nextId + generated
                /\ call' = c @@ [threw |-> "no"]
        /\ pre' = store
        /\ UNCHANGED <<isValid, schemaData, rt, envVars>>

-----------------------------------------------------------------------------
(* The store right after create() *)

\* the persistence and validation stores right after create(), no timeout set,
\* nothing saved
InitEnv ==
    /\ persistence = [isInitialLoad |-> TRUE, isLoading |-> TRUE]
    /\ validation = [errors |-> <<>>, isValid |-> TRUE]
    /\ autoSaveTimer = 0
    /\ validationTimer = 0
    /\ timers = {}
    /\ timerCount = 0
    /\ now = 0
    /\ storage = <<>>
    /\ journal = <<>>
    /\ deps = <<>>
    /\ editing = [localType |-> "string", localValue |-> "", valueUpdateTimerRef |-> 0,
                  valueValidationTimerRef |-> 0, synced |-> <<"string", VNull>>,
                  event |-> "mount"]

InitialStore ==
    [properties |-> <<>>, selectedPropertyId |-> Null, schema |-> EmptySchema,
     schemaString |-> "{}", isValid |-> TRUE, schemaData |-> <<>>]

Init ==
    /\ properties = InitialStore.properties
    /\ selectedPropertyId = InitialStore.selectedPropertyId
    /\ schema = InitialStore.schema
    /\ schemaString = InitialStore.schemaString
    /\ isValid = InitialStore.isValid
    /\ schemaData = InitialStore.schemaData
    /\ nextId = 0
    /\ call = [op |-> "create", threw |-> "no"]
    /\ pre = InitialStore
    /\ InitEnv
    /\ rt = [stage |-> "idle"]

Ids(props) == {props[i].id : i \in 1..Len(props)}

-----------------------------------------------------------------------------
(* Tree specification: the operations that shape the parentId graph,       *)
(* called with every parent and id argument, existing or not.              *)

\* an id generateId never hands out: names no property, ever
NoSuchId == IdOf(0)

\* the ids a caller can name: those of the collection, and one that names nothing
IdArgs == Ids(properties) \cup {NoSuchId}

NextTree ==
    \/ \E parentId \in IdArgs \cup {Null} :
          nextId < MaxIds /\ addProperty(parentId)
    \/ \E parentId \in IdArgs : addNestedProperty(parentId)
    \/ \E id \in IdArgs : removeProperty(id)
    \/ \E id \in IdArgs, parentId \in IdArgs \cup {Null} :
          updateProperty(id, [parentId |-> parentId])

SpecTree == Init /\ [][NextTree]_vars

-----------------------------------------------------------------------------
(* Reordering specification: properties are added at the root or under a    *)
(* property and dragged from one index to another among the siblings of a   *)
(* parent. Every store operation reads a field of each entry, so nothing    *)
(* is applied once the collection holds an undefined entry.                 *)

MaxIndex == 2

\* the parents the editor can name; none once an undefined entry is held
ParentArgs == IF \A i \in 1..Len(properties) : properties[i] # UndefinedEntry
              THEN Ids(properties) \cup {Null}
              ELSE {}

NextReorder ==
    \/ \E parentId \in ParentArgs : nextId < MaxIds /\ addProperty(parentId)
    \/ \E fromIndex \in 0..MaxIndex, toIndex \in 0..MaxIndex, parentId \in ParentArgs :
          reorderProperties(fromIndex, toIndex, parentId)

SpecReorder == Init /\ [][NextReorder]_vars

-----------------------------------------------------------------------------
(* Editing specification: properties are added at the root or under any     *)
(* property, edited field by field and removed, and the collection is       *)
(* cleared.                                                                 *)

EditUpdates ==
    {[key |-> "a", required |-> TRUE], [key |-> " "],
     [type |-> "object", value |-> <<"object", "{}">>]}

NextEdit ==
    \/ \E parentId \in Ids(properties) \cup {Null} :
          nextId < MaxEditIds /\ addProperty(parentId)
    \/ \E id \in IdArgs, updates \in EditUpdates : updateProperty(id, updates)
    \/ \E id \in IdArgs : removeProperty(id)
    \/ clearSchema

SpecEdit == Init /\ [][NextEdit]_vars

\* the same, with the copy button pressed at any moment
NextCopy == NextEdit \/ copySchemaToClipboard

SpecCopy == Init /\ [][NextCopy]_vars

-----------------------------------------------------------------------------
(* Validity specification: properties are added and given keys, flags and    *)
(* values of which some pass validateProperty and some do not.               *)

ValidityUpdates ==
    {[key |-> "a"], [key |-> "1a"], [required |-> TRUE],
     [type |-> "object", value |-> <<"string", "{a}">>]}

NextValidity ==
    \/ \E parentId \in Ids(properties) \cup {Null} :
          nextId < MaxEditIds /\ addProperty(parentId)
    \/ \E id \in Ids(properties), updates \in ValidityUpdates : updateProperty(id, updates)

SpecValidity == Init /\ [][NextValidity]_vars

-----------------------------------------------------------------------------
(* Restore specification: a collection is built and edited, and saved       *)
(* arrays read back from storage are handed to restoreProperties.           *)

\* the item schema of a saved array property
SavedItem ==
    [id |-> "s9", key |-> "item", description |-> "", type |-> "string", value |-> VNull,
     required |-> FALSE, parentId |-> "s3", properties |-> <<>>, items |-> <<>>]

\* saved records: complete ones, one with nothing but a key, one whose id and type
\* are empty strings and whose key is blank, an array with an item schema
SavedRecords ==
    {[id |-> "s1", key |-> "a", description |-> "d", type |-> "object", value |-> VNull,
      required |-> TRUE, parentId |-> Null, properties |-> <<>>],
     [id |-> "s2", key |-> "b", description |-> "", type |-> "number",
      value |-> <<"number", "42">>, required |-> FALSE, parentId |-> "s1",
      properties |-> <<>>],
     [key |-> "c"],
     [id |-> "", key |-> " ", type |-> "", parentId |-> "", value |-> VEmptyString,
      required |-> TRUE],
     [id |-> "s3", key |-> "l", type |-> "array", items |-> <<SavedItem>>]}

RECURSIVE SeqsUpTo(_, _)
SeqsUpTo(S, n) ==
    IF n = 0 THEN {<<>>}
    ELSE LET shorter == SeqsUpTo(S, n - 1) IN
         shorter \cup {Append(q, x) : q \in shorter, x \in S}

SavedArrays == SeqsUpTo(SavedRecords, MaxSaved)

NextRestore ==
    \/ nextId < MaxRestoreIds /\ addProperty(Null)
    \/ \E savedProperties \in SavedArrays :
          /\ nextId + Cardinality({j \in 1..Len(savedProperties) :
                                     NeedsId(savedProperties[j])}) <= MaxRestoreIds
          /\ restoreProperties(savedProperties)

SpecRestore == Init /\ [][NextRestore]_vars

-----------------------------------------------------------------------------
(* Transform specification: a property list is converted to a schema by     *)
(* propertiesToSchema and the schema back to a list by schemaToProperties.  *)

VText == <<"string", "\"x\"">>

\* what a property of the list may look like, apart from its id, key and parent
NodeTemplates ==
    {[type |-> "object", description |-> "", value |-> VNull, required |-> FALSE],
     [type |-> "object", description |-> "d", value |-> VNull, required |-> TRUE],
     [type |-> "string", description |-> "", value |-> VNull, required |-> FALSE],
     [type |-> "string", description |-> "d", value |-> VText, required |-> TRUE],
     [type |-> "string", description |-> "", value |-> VEmptyString, required |-> FALSE]}

NodeKeys == {"a", "b"}

\* a template under each key, and a required property that has no key yet
NodeShapes ==
    {[key |-> k] @@ t : k \in NodeKeys, t \in NodeTemplates}
    \cup {[key |-> "", type |-> "string", description |-> "", value |-> VNull,
            required |-> TRUE]}

\* the lists of n properties p1..pn, each a root or nested under an earlier one
RECURSIVE PropertyLists(_)
PropertyLists(n) ==
    IF n = 0 THEN {<<>>}
    ELSE {Append(P, [id |-> IdOf(n), key |-> t.key, description |-> t.description,
                     type |-> t.type, value |-> t.value, required |-> t.required,
                     parentId |-> parentId, properties |-> <<>>, items |-> <<>>]) :
            P \in PropertyLists(n - 1), t \in NodeShapes,
            parentId \in {Null} \cup {IdOf(j) : j \in 1..(n - 1)}}

InitTransform ==
    /\ properties = InitialStore.properties
    /\ selectedPropertyId = InitialStore.selectedPropertyId
    /\ schema = InitialStore.schema
    /\ schemaString = InitialStore.schemaString
    /\ isValid = InitialStore.isValid
    /\ schemaData = InitialStore.schemaData
    /\ nextId = 0
    /\ call = [op |-> "create", threw |-> "no"]
    /\ pre = InitialStore
    /\ InitEnv
    /\ \E n \in 1..MaxNodes : \E P \in PropertyLists(n) : rt = [stage |-> "list", P |-> P]

toSchema ==
    /\ rt.stage = "list"
    /\ rt' = [stage |-> "schema", P |-> rt.P, schema |-> propertiesToSchema(rt.P)]
    /\ UNCHANGED <<properties, selectedPropertyId, schema, schemaString, isValid,
                   schemaData, nextId, call, pre, envVars>>

toProperties ==
    /\ rt.stage = "schema"
    /\ rt' = [stage |-> "properties", P |-> rt.P, schema |-> rt.schema,
              Q |-> schemaToProperties(rt.schema, Null, 0).props]
    /\ UNCHANGED <<properties, selectedPropertyId, schema, schemaString, isValid,
                   schemaData, nextId, call, pre, envVars>>

toSchemaAgain ==
    /\ rt.stage = "properties"
    /\ rt' = [stage |-> "schema again", P |-> rt.P, schema |-> rt.schema, Q |-> rt.Q,
              schemaAgain |-> propertiesToSchema(rt.Q)]
    /\ UNCHANGED <<properties, selectedPropertyId, schema, schemaString, isValid,
                   schemaData, nextId, call, pre, envVars>>

NextTransform == toSchema \/ toProperties \/ toSchemaAgain

SpecTransform == InitTransform /\ [][NextTransform]_vars

-----------------------------------------------------------------------------
(* Key specification: validateKey is applied to a property of a collection  *)
(* with the siblings that validateProperty hands to it.                     *)

\* key texts as the name box writes them to the store: plain, with blanks around,
\* outside the grammar, blank
KeySamples == {"a", " a", "a ", "b", "_a$1", "1a", "a-b", " "}

\* the collections of n properties p1..pn with sampled keys
RECURSIVE KeyedLists(_)
KeyedLists(n) ==
    IF n = 0 THEN {<<>>}
    ELSE {Append(P, [id |-> IdOf(n), key |-> k, description |-> "", type |-> "string",
                     value |-> VNull, required |-> FALSE, parentId |-> parentId,
                     properties |-> <<>>, items |-> <<>>]) :
            P \in KeyedLists(n - 1), k \in KeySamples,
            parentId \in {Null} \cup {IdOf(j) : j \in 1..(n - 1)}}

InitKeys ==
    /\ properties = InitialStore.properties
    /\ selectedPropertyId = InitialStore.selectedPropertyId
    /\ schema = InitialStore.schema
    /\ schemaString = InitialStore.schemaString
    /\ isValid = InitialStore.isValid
    /\ schemaData = InitialStore.schemaData
    /\ nextId = 0
    /\ call = [op |-> "create", threw |-> "no"]
    /\ pre = InitialStore
    /\ InitEnv
    /\ \E n \in 1..MaxKeyed : \E P \in KeyedLists(n) : rt = [stage |-> "keys", P |-> P]

\* the key check of validateProperty(P[i], P)
validateKeyOf(i) ==
    LET property == rt.P[i]
        siblings == SelectSeq(rt.P, LAMBDA p : p.parentId = property.parentId
                                                /\ p.id # property.id)
    IN  /\ rt.stage = "keys"
        /\ rt' = [stage |-> "key", P |-> rt.P, i |-> i,
                  error |-> validateKey(property.key, siblings, property.id)]
        /\ UNCHANGED <<properties, selectedPropertyId, schema, schemaString, isValid,
                       schemaData, nextId, call, pre, envVars>>

NextKeys == \E i \in 1..MaxKeyed : i <= Len(rt.P) /\ validateKeyOf(i)

SpecKeys == InitKeys /\ [][NextKeys]_vars

-----------------------------------------------------------------------------
(* Conversion specification: convertValue is applied to a raw value and a   *)
(* declared type, and validateValue to what it returns.                     *)

\* raw values: what a value box holds as text, and values already converted
RawValues ==
    {<<"string", t>> : t \in {"true", "false", "yes", "TRUE", "0", "5", "-1.5", "abc", " ",
                               "{}", "{\"a\":1}", "{a}", "[1,2]", "[]", "null", "\"x\"",
                               "a,b", "1,2"}}
    \cup {VNull, VUndefined, VEmptyString, VTrue, VFalse, VEmptyObject, VEmptyArray,
           <<"number", "0">>, <<"number", "5">>}

InitConvert ==
    /\ properties = InitialStore.properties
    /\ selectedPropertyId = InitialStore.selectedPropertyId
    /\ schema = InitialStore.schema
    /\ schemaString = InitialStore.schemaString
    /\ isValid = InitialStore.isValid
    /\ schemaData = InitialStore.schemaData
    /\ nextId = 0
    /\ call = [op |-> "create", threw |-> "no"]
    /\ pre = InitialStore
    /\ InitEnv
    /\ \E raw \in RawValues, i \in 1..Len(VALID_TYPES) :
          rt = [stage |-> "raw", raw |-> raw, type |-> VALID_TYPES[i]]

convert ==
    /\ rt.stage = "raw"
    /\ rt' = [stage |-> "converted", raw |-> rt.raw, type |-> rt.type,
              value |-> convertValue(rt.raw, rt.type)]
    /\ UNCHANGED <<properties, selectedPropertyId, schema, schemaString, isValid,
                   schemaData, nextId, call, pre, envVars>>

validate ==
    /\ rt.stage = "converted"
    /\ rt' = [stage |-> "validated", raw |-> rt.raw, type |-> rt.type, value |-> rt.value,
              ok |-> validateValue(rt.value, rt.type)]
    /\ UNCHANGED <<properties, selectedPropertyId, schema, schemaString, isValid,
                   schemaData, nextId, call, pre, envVars>>

NextConvert == convert \/ validate

SpecConvert == InitConvert /\ [][NextConvert]_vars

-----------------------------------------------------------------------------
(* components/PropertyEditor/PropertyList: what the rendered tree lets a user do *)

\* "+ Add Property"
handleAddRootProperty == addProperty(Null)

\* the add-child button; renderProperty passes onAddNested to object-typed tags only
handleAddNested(parentId) ==
    LET i == FindIndex(properties, parentId) IN
    /\ i # 0
    /\ properties[i].type = "object"
    /\ addProperty(parentId)

\* the delete button
handleDelete(propertyId) ==
    /\ FindIndex(properties, propertyId) # 0
    /\ removeProperty(propertyId)

\* usePropertyEditing.handleTypeChange(newType = 'object') on a tag whose value box is empty
handleTypeChangeToObject(propertyId) ==
    LET i == FindIndex(properties, propertyId) IN
    /\ i # 0
    /\ properties[i].type # "object"
    /\ properties[i].value \in {VNull, VEmptyString}
    /\ updateProperty(propertyId, [type |-> "object", value |-> VEmptyObject])

-----------------------------------------------------------------------------
(* Deep-nesting specification: a user who keeps drilling down, always       *)
(* working on the property added last, or starts over by deleting the root. *)

Newest == properties[Len(properties)].id

NextDeep ==
    \/ properties = <<>> /\ nextId < MaxDeepIds /\ handleAddRootProperty
    \/ properties # <<>> /\ nextId < MaxDeepIds /\ handleAddNested(Newest)
    \/ properties # <<>> /\ handleTypeChangeToObject(Newest)
    \/ properties # <<>> /\ handleDelete(properties[1].id)
    \/ \E parentId \in (IF properties = <<>> THEN {} ELSE {Newest}) \cup {NoSuchId} :
          addNestedProperty(parentId)

SpecDeep == Init /\ [][NextDeep]_vars

-----------------------------------------------------------------------------
(* Parent specification: children are added with the add-child button, which *)
(* only object-typed tags have, and any property is given another type.      *)

NextParents ==
    \/ nextId < MaxEditIds /\ handleAddRootProperty
    \/ \E id \in Ids(properties) : nextId < MaxEditIds /\ handleAddNested(id)
    \/ \E id \in Ids(properties) : handleTypeChangeToObject(id)
    \/ \E id \in Ids(properties), i \in 1..Len(VALID_TYPES) :
          updateProperty(id, [type |-> VALID_TYPES[i]])
    \/ \E id \in Ids(properties) : handleDelete(id)

SpecParents == Init /\ [][NextParents]_vars

-----------------------------------------------------------------------------
(* Timeouts: window.setTimeout and clearTimeout *)

\* setTimeout(callback, delay): the timeouts pending afterwards, given those that
\* are left pending; the callback is a record of its name and captured arguments
setTimeout(pending, callback, delay) ==
    pending \cup {[id |-> timerCount + 1, due |-> now + delay] @@ callback}

\* clearTimeout(id)
clearTimeout(id) == {t \in timers : t.id # id}

\* a timeout runs once it is due, and no timeout set for an earlier time, or for the
\* same time by an earlier call, is still pending
MayRun(t) ==
    /\ t \in timers
    /\ now >= t.due
    /\ \A u \in timers : u.due > t.due \/ (u.due = t.due /\ u.id >= t.id)

\* time passes
Tick ==
    /\ now + ClockStep <= MaxTime
    /\ now' = now + ClockStep
    /\ UNCHANGED <<properties, selectedPropertyId, schema, schemaString, isValid,
                   schemaData, nextId, call, pre, rt, persistence, validation,
                   autoSaveTimer, validationTimer, timers, timerCount, storage, journal,
                   deps, editing>>

-----------------------------------------------------------------------------
(* store/usePersistenceStore *)

AUTO_SAVE_DEBOUNCE_MS == 500

setInitialLoad(value) ==
    /\ persistence' = [persistence EXCEPT !.isInitialLoad = value]
    /\ UNCHANGED <<properties, selectedPropertyId, schema, schemaString, isValid,
                   schemaData, nextId, call, pre, rt, validation, autoSaveTimer,
                   validationTimer, timers, timerCount, now, storage, journal, deps,
                   editing>>

\* what saveSchema puts under STORAGE_KEY
SavedData(schema_, properties_) ==
    [schema |-> schema_, properties |-> properties_, timestamp |-> now]

\* autoSave(schema, properties) when a pending timeout is left alone
autoSaveKeepingTimer(schema_, properties_) ==
    /\ IF persistence.isInitialLoad
       THEN UNCHANGED <<autoSaveTimer, timers, timerCount, journal>>
       ELSE /\ timers' = setTimeout(timers,
                                    [callback |-> "autoSave", schema |-> schema_,
                                     properties |-> properties_],
                                    AUTO_SAVE_DEBOUNCE_MS)
            /\ autoSaveTimer' = timerCount + 1
            /\ timerCount' = timerCount + 1
            /\ journal' = Append(journal, [event |-> "autoSave", at |-> now,
                                            timer |-> timerCount + 1, schema |-> schema_,
                                            properties |-> properties_])
    /\ UNCHANGED <<properties, selectedPropertyId, schema, schemaString, isValid,
                   schemaData, nextId, call, pre, rt, persistence, validation,
                   validationTimer, now, storage, editing>>

\* autoSave(schema, properties)
autoSave(schema_, properties_) ==
    /\ IF persistence.isInitialLoad
       THEN UNCHANGED <<autoSaveTimer, timers, timerCount, journal>>
       ELSE /\ timers' = setTimeout(IF autoSaveTimer # 0 THEN clearTimeout(autoSaveTimer)
                                                              ELSE timers,
                                    [callback |-> "autoSave", schema |-> schema_,
                                     properties |-> properties_],
                                    AUTO_SAVE_DEBOUNCE_MS)
            /\ autoSaveTimer' = timerCount + 1
            /\ timerCount' = timerCount + 1
            /\ journal' = Append(journal, [event |-> "autoSave", at |-> now,
                                            timer |-> timerCount + 1, schema |-> schema_,
                                            properties |-> properties_])
    /\ UNCHANGED <<properties, selectedPropertyId, schema, schemaString, isValid,
                   schemaData, nextId, call, pre, rt, persistence, validation,
                   validationTimer, now, storage, editing>>

\* the callback autoSave hands to setTimeout, run for the pending timeout t:
\* saveSchema(schema, validProperties)
autoSaveExpires(t) ==
    LET validProperties == SelectSeq(t.properties, HasKey) IN
    /\ MayRun(t)
    /\ t.callback = "autoSave"
    /\ timers' = timers \ {t}
    /\ storage' = <<SavedData(t.schema, validProperties)>>
    /\ journal' = Append(journal, [event |-> "saveSchema", at |-> now, timer |-> t.id,
                                    schema |-> t.schema, properties |-> validProperties,
                                    isInitialLoad |-> persistence.isInitialLoad])
    /\ UNCHANGED <<properties, selectedPropertyId, schema, schemaString, isValid,
                   schemaData, nextId, call, pre, rt, persistence, validation,
                   autoSaveTimer, validationTimer, timerCount, now, deps, editing>>

\* the auto-save effect of PropertyEditor: runs when schema or properties differ
\* from the values it last ran with
autoSaveEffect ==
    /\ deps # <<schema, properties>>
    /\ autoSave(schema, properties)
    /\ deps' = <<schema, properties>>

-----------------------------------------------------------------------------
(* Persistence specification: autoSave is called with collections of which  *)
(* some have properties without a key, the initial-load flag is set either  *)
(* way, time passes and timeouts run, in any order.                         *)

SaveLists ==
    {<<>>,
     <<Merge(newProperty("p1", Null), [key |-> "a"])>>,
     <<Merge(newProperty("p1", Null), [key |-> "a", required |-> TRUE]),
       newProperty("p2", Null)>>}

NextPersist ==
    \/ \E P \in SaveLists :
          timerCount < MaxCalls /\ autoSave(propertiesToSchema(P), P) /\ UNCHANGED deps
    \/ \E value \in BOOLEAN : setInitialLoad(value)
    \/ \E t \in timers : autoSaveExpires(t)
    \/ Tick

SpecPersist == Init /\ [][NextPersist]_vars

-----------------------------------------------------------------------------
(* store/useValidationStore *)

VALIDATION_DEBOUNCE_MS == 500

\* what set({errors, isValid: Object.keys(errors).length === 0}) leaves in the store
Validated(errors) == [errors |-> errors, isValid |-> DOMAIN errors = {}]

\* validateAll(properties): the store afterwards
validateAll(properties_) == Validated(validateAllProperties(properties_))

\* clearErrors(): the store afterwards
clearErrors == [errors |-> <<>>, isValid |-> TRUE]

\* autoValidate(properties)
autoValidate(properties_) ==
    /\ timers' = setTimeout(IF validationTimer # 0 THEN clearTimeout(validationTimer)
                                                    ELSE timers,
                            [callback |-> "autoValidate", properties |-> properties_],
                            VALIDATION_DEBOUNCE_MS)
    /\ validationTimer' = timerCount + 1
    /\ timerCount' = timerCount + 1

\* the callback autoValidate hands to setTimeout, run for the pending timeout t
autoValidateExpires(t) ==
    LET validProperties == SelectSeq(t.properties, HasKey) IN
    /\ MayRun(t)
    /\ t.callback = "autoValidate"
    /\ timers' = timers \ {t}
    /\ validation' = IF Len(validProperties) > 0 THEN validateAll(validProperties)
                     ELSE IF Len(t.properties) = 0 THEN clearErrors
                     ELSE validation
    /\ UNCHANGED <<properties, selectedPropertyId, schema, schemaString, isValid,
                   schemaData, nextId, call, pre, rt, persistence, autoSaveTimer,
                   validationTimer, timerCount, now, storage, journal, deps, editing>>

\* PropertyEditor: useEffect(() => { autoValidate(properties) }, [properties, autoValidate]),
\* run once properties is not what the effect saw last
autoValidateEffect ==
    /\ deps # <<properties>>
    /\ autoValidate(properties)
    /\ deps' = <<properties>>
    /\ UNCHANGED <<properties, selectedPropertyId, schema, schemaString, isValid,
                   schemaData, nextId, call, pre, rt, persistence, validation,
                   autoSaveTimer, now, storage, journal, editing>>

-----------------------------------------------------------------------------
(* Save specification: the collection is edited through the store, the      *)
(* auto-save effect hands each new schema and collection to autoSave, time  *)
(* passes while a timeout waits, timeouts run, and the editor is mounted    *)
(* again on what storage holds.                                             *)

NextSave ==
    \/ \E parentId \in Ids(properties) \cup {Null} :
          nextId < MaxEditIds /\ addProperty(parentId)
    \/ \E id \in Ids(properties), k \in {"a", " "} : updateProperty(id, [key |-> k])
    \/ \E id \in Ids(properties) : removeProperty(id)
    \/ deps # <<>> /\ persistence.isInitialLoad /\ setInitialLoad(FALSE)
    \/ timerCount < MaxEffects /\ autoSaveEffect
    \/ \E t \in timers : autoSaveExpires(t)
    \/ (\E t \in timers : now < t.due) /\ Tick
    \/ /\ storage # <<>>
       /\ timers = {}
       /\ IF storage[1].properties # <<>>
          THEN restoreProperties(storage[1].properties)
          ELSE clearSchema

SpecSave == Init /\ [][NextSave]_vars

-----------------------------------------------------------------------------
(* Auto-validation specification: properties are added, given keys and      *)
(* removed, the effect of PropertyEditor hands each new collection to       *)
(* autoValidate, time passes while a timeout waits, and timeouts run.       *)

ValidatedKeys == {"a", "1a", ""}

NextAutoValidate ==
    \/ nextId < MaxValidated /\ addProperty(Null)
    \/ \E id \in Ids(properties), k \in ValidatedKeys : updateProperty(id, [key |-> k])
    \/ \E id \in Ids(properties) : removeProperty(id)
    \/ timerCount < MaxEffects /\ autoValidateEffect
    \/ \E t \in timers : autoValidateExpires(t)
    \/ (\E t \in timers : now < t.due) /\ Tick

SpecAutoValidate == Init /\ [][NextAutoValidate]_vars

-----------------------------------------------------------------------------
(* hooks/usePropertyEditing, as used by the tag of the first property *)

\* formatArrayForInput(value); the arrays of the model are flat and hold no null
formatArrayForInput(value) ==
    IF value \in {VNull, VUndefined} THEN ""
    ELSE IF value[1] = "array" THEN Join(Split(ToStringJS(value)), ", ")
    ELSE ToStringJS(value)

\* formatObjectForInput(value); the objects of the model are empty, and
\* JSON.stringify({}, null, 2) is {}
formatObjectForInput(value) ==
    IF value \in {VNull, VUndefined} THEN ""
    ELSE IF value[1] = "object" THEN "{}"
    ELSE ToStringJS(value)

getFormattedValue(value, type) ==
    IF value \in {VNull, VUndefined, VEmptyString} THEN ""
    ELSE IF type = "array" THEN formatArrayForInput(value)
    ELSE IF type = "object" THEN formatObjectForInput(value)
    ELSE ToStringJS(value)

\* the property prop of the hook, once the first property exists
Edited == properties[FindIndex(properties, IdOf(1))]

\* useValidationStore.validateProperty(tag, allProperties): the store afterwards
validatePropertyOf(tag, allProperties) ==
    LET Stored(errors) ==
            LET others == DOMAIN validation.errors \ {tag.id}
                ids == IF DOMAIN errors # {} THEN others \cup {tag.id} ELSE others
            IN  Validated([id \in ids |-> IF id = tag.id THEN errors
                                          ELSE validation.errors[id]])
    IN  Once({Stored(errors) : errors \in {validateProperty(tag, allProperties)}})

\* what a handler of the hook does, in the order of its calls: the local state and
\* the refs it leaves, the timeouts pending afterwards, its updateProperty call
\* and its validateProperty call (<<>> when it makes none)
Does(event, local, pending, set, updates, validated) ==
    [editing |-> [local EXCEPT !.event = event], timers |-> pending,
     timerCount |-> timerCount + set, updateProperty |-> updates,
     validateProperty |-> validated]

\* the pending timeouts once those of the two refs are cleared
ClearedRefs ==
    {t \in timers : t.id \notin {editing.valueUpdateTimerRef, editing.valueValidationTimerRef}}

handleTypeChange(newType) ==
    LET localValue == editing.localValue
        defaulted == (localValue = "" \/ Trim(localValue) = "") /\ newType \in {"object", "array"}
        Shown(converted) ==
            IF defaulted
            THEN IF newType = "object" THEN formatObjectForInput(VEmptyObject) ELSE "[]"
            ELSE IF localValue # ""
            THEN IF converted # VNull
                 THEN IF newType = "array" THEN formatArrayForInput(converted)
                      ELSE IF newType = "object" THEN formatObjectForInput(converted)
                      ELSE ToStringJS(converted)
                 ELSE ""
            ELSE localValue
        Updates(newValue) ==
            [type |-> newType]
            @@ (IF defaulted
                THEN [value |-> IF newType = "object" THEN VEmptyObject ELSE VEmptyArray]
                ELSE IF newValue # localValue /\ newValue # ""
                THEN [value |-> convertValue(<<"string", newValue>>, newType)]
                ELSE [f \in {} |-> VNull])
        Calls(newValue, updates) ==
            Does("handleTypeChange",
                 [editing EXCEPT !.localType = newType, !.localValue = newValue],
                 timers, 0,
                 <<[id |-> Edited.id, updates |-> updates]>>,
                 <<[property |-> Merge(Edited, updates), allProperties |-> properties]>>)
        Then(newValue) == Once({Calls(newValue, updates) : updates \in {Updates(newValue)}})
    IN  Once({Then(newValue) :
                newValue \in {Shown(converted) :
                                converted \in {convertValue(<<"string", localValue>>, newType)}}})

\* handleValueChange(e) with e.target.value = newValue: the update is set for 400 ms
\* later and the validation for 1000 ms (object, array) or 600 ms later
handleValueChange(newValue) ==
    LET container == editing.localType \in {"object", "array"}
        update == [id |-> timerCount + 1, due |-> now + 400, callback |-> "valueUpdate",
                   property |-> Edited,
                   value |-> IF newValue = "" THEN VNull
                             ELSE IF container THEN <<"string", newValue>>
                             ELSE convertValue(<<"string", newValue>>, editing.localType)]
        validationOf == [id |-> timerCount + 2,
                         due |-> now + (IF container THEN 1000 ELSE 600),
                         callback |-> "valueValidation", property |-> Edited,
                         newValue |-> newValue, localType |-> editing.localType,
                         properties |-> properties]
    IN  Does("handleValueChange",
             [editing EXCEPT !.localValue = newValue,
                             !.valueUpdateTimerRef = timerCount + 1,
                             !.valueValidationTimerRef = timerCount + 2],
             ClearedRefs \cup {update, validationOf}, 2, <<>>, <<>>)

handleValueBlur ==
    LET localValue == editing.localValue
        localType == editing.localType
        Value(converted) ==
            IF localType \in {"object", "array"}
            THEN IF converted # VNull THEN converted
                 ELSE IF localValue # "" THEN <<"string", localValue>>
                 ELSE VNull
            ELSE IF localValue = "" THEN VNull ELSE converted
        tempProperty == Merge(Edited, [value |-> <<"string", localValue>>, type |-> localType])
        Calls(value) ==
            Does("handleValueBlur",
                 [editing EXCEPT !.valueUpdateTimerRef = 0, !.valueValidationTimerRef = 0],
                 ClearedRefs, 0,
                 <<[id |-> Edited.id, updates |-> [value |-> value]]>>,
                 <<[property |-> tempProperty, allProperties |-> properties]>>)
    IN  Once({Calls(Value(converted)) :
                converted \in {convertValue(<<"string", localValue>>, localType)}})

\* the callbacks handleValueChange hands to setTimeout, run for the pending timeout t
valueTimeoutRuns(t) ==
    LET trimmed == Trim(t.newValue)
        checked == \/ t.localType \notin {"object", "array"}
                   \/ trimmed = ""
                   \/ StartsWith(trimmed, "{") /\ EndsWith(trimmed, "}")
                   \/ StartsWith(trimmed, "[") /\ EndsWith(trimmed, "]")
        tempProperty == Merge(t.property, [value |-> <<"string", t.newValue>>,
                                           type |-> t.localType])
    IN  IF t.callback = "valueUpdate"
        THEN Does("valueUpdate", [editing EXCEPT !.valueUpdateTimerRef = 0],
                  timers \ {t}, 0,
                  <<[id |-> t.property.id, updates |-> [value |-> t.value]]>>, <<>>)
        ELSE Does("valueValidation", [editing EXCEPT !.valueValidationTimerRef = 0],
                  timers \ {t}, 0, <<>>,
                  IF checked
                  THEN <<[property |-> tempProperty, allProperties |-> t.properties]>>
                  ELSE <<>>)

\* the handler or callback runs: the stores, the timeouts and the hook afterwards
Runs(does) ==
    /\ IF does.updateProperty = <<>>
       THEN UNCHANGED <<properties, selectedPropertyId, schema, schemaString, isValid,
                        schemaData, call, pre>>
       ELSE updateStore(does.updateProperty[1].id, does.updateProperty[1].updates)
    /\ validation' = IF does.validateProperty = <<>> THEN validation
                     ELSE validatePropertyOf(does.validateProperty[1].property,
                                             does.validateProperty[1].allProperties)
    /\ timers' = does.timers
    /\ timerCount' = does.timerCount
    /\ editing' = does.editing
    /\ UNCHANGED <<nextId, rt, persistence, autoSaveTimer, validationTimer, now, storage,
                   journal, deps>>

\* the effect that syncs the local state with the property, run once the type or the
\* value of the property is not what it saw last
syncLocalState ==
    /\ FindIndex(properties, IdOf(1)) # 0
    /\ editing.synced # <<Edited.type, Edited.value>>
    /\ editing' = [editing EXCEPT
                      !.localType = IF Edited.type = "" THEN "string" ELSE Edited.type,
                      !.localValue = getFormattedValue(Edited.value, Edited.type),
                      !.synced = <<Edited.type, Edited.value>>,
                      !.event = "sync"]
    /\ UNCHANGED <<properties, selectedPropertyId, schema, schemaString, isValid,
                   schemaData, nextId, call, pre, rt, persistence, validation,
                   autoSaveTimer, validationTimer, timers, timerCount, now, storage,
                   journal, deps>>

-----------------------------------------------------------------------------
(* Value-box specification: the first property is added and named, its type *)
(* is changed, text is typed into its value box and the box is left, time   *)
(* passes while a timeout waits, and timeouts run. The tag takes events     *)
(* once it has its name and has rendered with the type and value the store  *)
(* holds.                                                                   *)

MaxKeystrokes == 2

BoxTexts == {"5", "abc", "{a}"}

BoxTypes == {"string", "number", "object", "array"}

\* what the user and the clock can set off in the hook
Events ==
    (IF /\ properties # <<>>
        /\ HasKey(properties[1])
        /\ editing.synced = <<Edited.type, Edited.value>>
     THEN {handleTypeChange(newType) : newType \in BoxTypes \ {editing.localType}}
          \cup (IF timerCount < 2 * MaxKeystrokes
                THEN {handleValueChange(newValue) : newValue \in BoxTexts \ {editing.localValue}}
                ELSE {})
          \cup {handleValueBlur}
     ELSE {})
    \cup {valueTimeoutRuns(t) :
            t \in {u \in timers : u.callback \in {"valueUpdate", "valueValidation"} /\ MayRun(u)}}

NextEditor ==
    \/ nextId = 0 /\ addProperty(Null)
    \/ properties # <<>> /\ ~HasKey(properties[1]) /\ updateProperty(IdOf(1), [key |-> "a"])
    \/ \E does \in Events : Runs(does)
    \/ syncLocalState
    \/ (\E t \in timers : now < t.due) /\ Tick

SpecEditor == Init /\ [][NextEditor]_vars

-----------------------------------------------------------------------------
(* The parentId graph, defined on sets rather than by the code's recursion *)

UniqueIds(props) ==
    \A i, j \in 1..Len(props) : props[i].id = props[j].id => i = j

\* the least set of ids that contains S and the id of every property whose parent is in it
RECURSIVE ClosedUnder(_, _)
ClosedUnder(props, S) ==
    LET T == S \cup {props[i].id : i \in {j \in 1..Len(props) : props[j].parentId \in S}} IN
    IF T = S THEN S ELSE ClosedUnder(props, T)

ChildIds(props, id) == {props[i].id : i \in {j \in 1..Len(props) : props[j].parentId = id}}

\* the transitive descendants of id
Descendants(props, id) == ClosedUnder(props, ChildIds(props, id))

Acyclic(props) == \A i \in 1..Len(props) : props[i].id \notin Descendants(props, props[i].id)

Forest(props) == UniqueIds(props) /\ Acyclic(props)

ParentIdOf(props, id) == props[FindIndex(props, id)].parentId

\* the least set of ids that contains S and the parentId of every non-root property in it
RECURSIVE ClosedUpward(_, _)
ClosedUpward(props, S) ==
    LET T == S \cup {props[i].parentId :
                        i \in {j \in 1..Len(props) : props[j].id \in S /\ ~IsRoot(props[j])}} IN
    IF T = S THEN S ELSE ClosedUpward(props, T)

\* the ids reached from id by following parentId links (the last may name no property)
Ancestors(props, id) ==
    IF FindIndex(props, id) = 0 \/ IsRoot(props[FindIndex(props, id)]) THEN {}
    ELSE ClosedUpward(props, {ParentIdOf(props, id)})

OwnAncestor(props, id) == id \in Ancestors(props, id)

\* parentId hops from id to the root, for a property that is not on or below a cycle
NestingDepth(props, id) == Cardinality(Ancestors(props, id))

OnOrBelowCycle(props, id) == \E a \in Ancestors(props, id) \cup {id} : OwnAncestor(props, a)

-----------------------------------------------------------------------------
(* Claims *)

\* C1: in a collection whose parentId links form a forest, removeProperty(id) of an
\* existing property with N transitive descendants leaves exactly the other
\* properties, unchanged and in order (so the size drops by N + 1), and no
\* remaining property names a removed id as its parentId.
C1_RemoveCascades ==
    (/\ call.op = "removeProperty"
     /\ Forest(pre.properties)
     /\ call.id \in Ids(pre.properties))
    => LET removed == Descendants(pre.properties, call.id) \cup {call.id} IN
       /\ call.threw = "no"
       /\ Len(properties) = Len(pre.properties) - Cardinality(removed)
       /\ properties = SelectSeq(pre.properties, LAMBDA p : p.id \notin removed)
       /\ \A i \in 1..Len(properties) : properties[i].parentId \notin removed

\* a property with a child and a grandchild has been removed from a forest
C1_Witness ==
    /\ call.op = "removeProperty"
    /\ Forest(pre.properties)
    /\ call.id \in Ids(pre.properties)
    /\ \E c \in ChildIds(pre.properties, call.id) :
          ChildIds(pre.properties, c) # {}
    /\ Len(properties) = Len(pre.properties) - 3

\* C2: addNestedProperty(parentId) with an existing parent at nesting depth at most 9
\* and no cycle in its ancestor chain returns a new id, and the collection gains
\* exactly one property, with that id and that parent.
C2_AddNestedDelegates ==
    (/\ call.op = "addNestedProperty"
     /\ call.parentId \in Ids(pre.properties)
     /\ ~OnOrBelowCycle(pre.properties, call.parentId)
     /\ NestingDepth(pre.properties, call.parentId) <= 9)
    => /\ call.ret # Null
       /\ call.ret \notin Ids(pre.properties)
       /\ Len(properties) = Len(pre.properties) + 1
       /\ SubSeq(properties, 1, Len(pre.properties)) = pre.properties
       /\ properties[Len(properties)].id = call.ret
       /\ properties[Len(properties)].parentId = call.parentId

\* when addNestedProperty has to refuse
MustRefuse(props, parentId) ==
    \/ parentId \notin Ids(props)
    \/ OnOrBelowCycle(props, parentId)
    \/ NestingDepth(props, parentId) >= 10

\* C3: whenever addNestedProperty refuses (missing parent, parent at depth 10, a
\* property would become its own ancestor) it returns null, and a call that returns
\* null leaves properties, selected id, schema and schema string as they were.
C3_RefusalLeavesStore ==
    call.op = "addNestedProperty"
    => /\ MustRefuse(pre.properties, call.parentId) => call.ret = Null
       /\ call.ret = Null =>
            /\ properties = pre.properties
            /\ selectedPropertyId = pre.selectedPropertyId
            /\ schema = pre.schema
            /\ schemaString = pre.schemaString

\* addNestedProperty has refused a parent that exists and sits at depth 10
C3_Witness ==
    /\ call.op = "addNestedProperty"
    /\ call.parentId \in Ids(pre.properties)
    /\ NestingDepth(pre.properties, call.parentId) = 10
    /\ call.ret = Null
    /\ properties = pre.properties

\* C4: no property is ever nested deeper than 10
C4_DepthAtMostTen ==
    \A i \in 1..Len(properties) :
        ~OnOrBelowCycle(properties, properties[i].id)
        => NestingDepth(properties, properties[i].id) <= 10

\* C5: the parentId graph is acyclic
C5_Acyclic == Acyclic(properties)

\* a key with at least one character that is not a blank
NonBlankKey(k) == \E i \in 1..Len(k) : SubSeq(k, i, i) # " "

\* the properties that take part in schema generation
Keyed(props) == SelectSeq(props, LAMBDA p : NonBlankKey(p.key))

CollectionOps ==
    {"addProperty", "updateProperty", "removeProperty", "reorderProperties",
     "restoreProperties", "loadSchema", "clearSchema"}

\* C6: after every store operation on the collection, the schema is
\* propertiesToSchema of the current properties with a non-blank key.
C6_SchemaInSync ==
    call.op \in CollectionOps => schema = propertiesToSchema(Keyed(properties))

\* C7: updateProperty(id, updates) merges the given fields into the property with
\* that id and leaves the others, the size and the order as they were; the schema
\* and its string are regenerated iff that property's resulting key is non-blank,
\* and otherwise schema, schemaString and isValid keep their values.
C7_UpdateMerges ==
    call.op = "updateProperty"
    => /\ Len(properties) = Len(pre.properties)
       /\ \A i \in 1..Len(pre.properties) :
            LET old == pre.properties[i]
                new == properties[i]
            IN  IF old.id = call.id
                THEN /\ DOMAIN new = DOMAIN old \cup DOMAIN call.updates
                     /\ \A f \in DOMAIN call.updates : new[f] = call.updates[f]
                     /\ \A f \in DOMAIN old \ DOMAIN call.updates : new[f] = old[f]
                ELSE new = old
       /\ IF \E i \in 1..Len(properties) :
                properties[i].id = call.id /\ NonBlankKey(properties[i].key)
          THEN /\ schema = propertiesToSchema(Keyed(properties))
               /\ schemaString = formatJSON(schema)
          ELSE /\ schema = pre.schema
               /\ schemaString = pre.schemaString
               /\ isValid = pre.isValid

\* an update has left a property that was in the schema with a blank key, next to
\* another property, and the schema kept is no longer the one the collection gives
C7_Witness ==
    /\ call.op = "updateProperty"
    /\ call.id \in Ids(pre.properties)
    /\ Len(properties) >= 2
    /\ \E i \in 1..Len(properties) :
          /\ properties[i].id = call.id
          /\ ~NonBlankKey(properties[i].key)
          /\ NonBlankKey(pre.properties[i].key)
    /\ schema = pre.schema
    /\ schema # propertiesToSchema(Keyed(properties))

\* C8: addProperty(parentId) appends one property with a new id, empty key, type
\* string, value null, required false and the given parentId, returns that id, and
\* leaves the existing properties, the schema and the schema string as they were.
C8_AddAppends ==
    call.op = "addProperty"
    => /\ call.ret \notin Ids(pre.properties)
       /\ properties =
            Append(pre.properties,
                   [id |-> call.ret, key |-> "", description |-> "", type |-> "string",
                    value |-> VNull, required |-> FALSE, parentId |-> call.parentId,
                    properties |-> <<>>, items |-> <<>>])
       /\ schema = pre.schema
       /\ schemaString = pre.schemaString

\* a child has been added while the schema in the store was out of date
C8_Witness ==
    /\ call.op = "addProperty"
    /\ call.parentId \in Ids(pre.properties)
    /\ properties[Len(properties)].id = call.ret
    /\ schema # propertiesToSchema(Keyed(properties))

Kept(rec, f) ==
    /\ f \in DOMAIN rec
    /\ f # "items"
    /\ f \in {"id", "type"} => rec[f] # ""

\* the ids of an array are distinct where supplied
DistinctSavedIds(saved) ==
    \A i, j \in 1..Len(saved) :
        (~NeedsId(saved[i]) /\ ~NeedsId(saved[j]) /\ saved[i].id = saved[j].id) => i = j

Label(p) == <<p.key, p.type, p.description, p.value, p.required>>

\* the labels from the root down to the property with this id
RECURSIVE PathTo(_, _, _)
PathTo(props, id, fuel) ==
    LET p == props[FindIndex(props, id)] IN
    IF IsRoot(p) \/ FindIndex(props, p.parentId) = 0 \/ fuel = 0 THEN <<Label(p)>>
    ELSE Append(PathTo(props, p.parentId, fuel - 1), Label(p))

Paths(props) == {PathTo(props, props[i].id, Len(props)) : i \in 1..Len(props)}

\* two forests with unique sibling keys are isomorphic, ids and order ignored
Isomorphic(P, Q) == Len(P) = Len(Q) /\ Paths(P) = Paths(Q)

UniqueSiblingKeys(props) ==
    \A i, j \in 1..Len(props) :
        (props[i].parentId = props[j].parentId /\ props[i].key = props[j].key) => i = j

\* C10: for a property list P with unique sibling keys, non-blank keys and nesting
\* depth at most 10, schemaToProperties(propertiesToSchema(P)) is a tree isomorphic
\* to P: the same key, type, description, value, required flag and parent/child
\* structure at every level, ids ignored.
C10_RoundTrip ==
    (/\ rt.stage = "properties"
     /\ UniqueSiblingKeys(rt.P)
     /\ \A i \in 1..Len(rt.P) : HasKey(rt.P[i])
     /\ \A i \in 1..Len(rt.P) : NestingDepth(rt.P, rt.P[i].id) <= MAX_NESTING_DEPTH)
    => Isomorphic(rt.P, rt.Q)

\* two schema nodes are deep-equal: the same fields with equal values, the entries
\* of a properties map compared key by key, whatever their order
RECURSIVE DeepEqual(_, _)
DeepEqual(a, b) ==
    /\ DOMAIN a = DOMAIN b
    /\ \A f \in DOMAIN a \ {"properties", "items"} : a[f] = b[f]
    /\ "items" \in DOMAIN a => DeepEqual(a.items, b.items)
    /\ "properties" \in DOMAIN a =>
          /\ {a.properties[i].k : i \in 1..Len(a.properties)}
               = {b.properties[i].k : i \in 1..Len(b.properties)}
          /\ \A i \in 1..Len(a.properties) : \A j \in 1..Len(b.properties) :
                a.properties[i].k = b.properties[j].k
                => DeepEqual(a.properties[i].v, b.properties[j].v)

\* C11: for any property list P, the schema generated from
\* schemaToProperties(propertiesToSchema(P)) is deep-equal to propertiesToSchema(P).
C11_Idempotent ==
    rt.stage = "schema again" => DeepEqual(rt.schema, rt.schemaAgain)

\* no schema node
NoNode == [none |-> TRUE]

\* the entry of a schema node's properties map under key k
Entry(node, k) ==
    IF "properties" \in DOMAIN node /\ \E i \in 1..Len(node.properties) : node.properties[i].k = k
    THEN node.properties[CHOOSE i \in 1..Len(node.properties) : node.properties[i].k = k].v
    ELSE NoNode

\* the schema node that holds the children of parentId: the schema itself for the
\* root level, else the node of the parent property
RECURSIVE Level(_, _, _, _)
Level(root, props, parentId, fuel) ==
    LET i == FindIndex(props, parentId) IN
    IF parentId = Null THEN root
    ELSE IF i = 0 \/ fuel = 0 THEN NoNode
    ELSE Entry(Level(root, props, props[i].parentId, fuel - 1), props[i].key)

\* the property has a node in the schema, under its key at its level
AppearsIn(root, props, p) == Entry(Level(root, props, p.parentId, Len(props)), p.key) # NoNode

\* updateProperty has just regenerated the schema
Regenerated ==
    /\ call.op = "updateProperty"
    /\ \E i \in 1..Len(properties) : properties[i].id = call.id /\ HasKey(properties[i])

\* C12: in the schema the store generates, a property that fails validation does
\* not appear and the valid properties of the same collection do.
C12_InvalidExcluded ==
    Regenerated
    => \A i \in 1..Len(properties) :
          AppearsIn(schema, properties, properties[i])
          <=> DOMAIN validateProperty(properties[i], properties) = {}

\* the required array of a schema node, empty when the node has none
RequiredOf(node) == IF "required" \in DOMAIN node THEN node.required ELSE <<>>

\* properties[j] repeats the well-formed key of an earlier sibling
RepeatsKey(props, j) ==
    /\ KEY_PATTERN(props[j].key)
    /\ \E i \in 1..(j - 1) :
          props[i].parentId = props[j].parentId /\ props[i].key = props[j].key

\* the required keys of the children of parentId, those repeating a key left out
RequiredWithoutRepeats(props, parentId) ==
    RequiredKeys(SelectSeq([i \in 1..Len(props) |-> props[i] @@ [index |-> i]],
                           LAMBDA p : /\ p.parentId = parentId /\ HasKey(p)
                                      /\ ~RepeatsKey(props, p.index)))

\* C13: when two properties with the same parentId have been given the same key,
\* the one added second has the duplicate-key error, its required flag adds
\* nothing to the required array of the generated schema at that level, and both
\* properties are still in the collection.
C13_DuplicateKey ==
    Regenerated
    => /\ Ids(properties) = Ids(pre.properties)
       /\ \A j \in 1..Len(properties) :
            RepeatsKey(properties, j)
            => LET errors == validateProperty(properties[j], properties)
                   level == Level(schema, properties, properties[j].parentId, Len(properties))
               IN  /\ "key" \in DOMAIN errors
                   /\ errors.key = "Key already exists at this level"
                   /\ level # NoNode
                      => RequiredOf(level)
                           = RequiredWithoutRepeats(properties, properties[j].parentId)

\* the children of parentId (the roots for Null) that have a non-blank key
KeyedChildren(props, parentId) ==
    SelectSeq(props, LAMBDA p : HasKey(p) /\ (IF parentId = Null THEN IsRoot(p)
                                                ELSE p.parentId = parentId))

\* node is the schema of the level under parentId: its required array is there iff
\* a keyed child is required, lists exactly the keys of the required keyed
\* children, all of them keys of the properties map; the same holds below
RECURSIVE RequiredWellFormed(_, _, _, _)
RequiredWellFormed(node, props, parentId, fuel) ==
    LET kids == KeyedChildren(props, parentId)
        requiredKeys == {kids[i].key : i \in {j \in 1..Len(kids) : kids[j].required}}
        Owner(k) == kids[CHOOSE i \in 1..Len(kids) :
                            kids[i].key = k /\ \A j \in (i + 1)..Len(kids) : kids[j].key # k]
    IN  /\ fuel > 0
        /\ "required" \in DOMAIN node <=> requiredKeys # {}
        /\ "required" \in DOMAIN node =>
              /\ DOMAIN node.required = 1..Len(node.required)
              /\ {node.required[i] : i \in 1..Len(node.required)} = requiredKeys
              /\ requiredKeys \subseteq {node.properties[i].k : i \in 1..Len(node.properties)}
        /\ \A i \in 1..Len(node.properties) :
              LET child == node.properties[i].v IN
              IF "properties" \in DOMAIN child
              THEN RequiredWellFormed(child, props, Owner(node.properties[i].k).id, fuel - 1)
              ELSE "required" \notin DOMAIN child

\* C14: in every schema produced by propertiesToSchema, at the root and at every
\* nested object level, the required array is present iff a non-blank-key child of
\* that level is required, lists exactly the keys of those children, each a key of
\* the level's properties map, and required is never a boolean field of a node.
C14_RequiredArrays ==
    rt.stage = "schema" => RequiredWellFormed(rt.schema, rt.P, Null, Len(rt.P) + 1)

\* an object has a keyed required child and a required child without a key, and
\* its schema node lists the key of the first only
C14_Witness ==
    /\ rt.stage = "schema"
    /\ \E i, j, k \in 1..Len(rt.P) :
          /\ IsRoot(rt.P[i]) /\ rt.P[i].type = "object" /\ HasKey(rt.P[i])
          /\ rt.P[j].parentId = rt.P[i].id /\ HasKey(rt.P[j]) /\ rt.P[j].required
          /\ rt.P[k].parentId = rt.P[i].id /\ ~HasKey(rt.P[k]) /\ rt.P[k].required
          /\ RequiredOf(Entry(rt.schema, rt.P[i].key)) = <<rt.P[j].key>>
          /\ "required" \notin DOMAIN rt.schema

\* another property of the collection has the parent of P[i] and, after trimming,
\* its key
SharesTrimmedKey(P, i) ==
    \E j \in 1..Len(P) :
        /\ P[j].id # P[i].id
        /\ P[j].parentId = P[i].parentId
        /\ Trim(P[j].key) = Trim(P[i].key)

\* C15: for a property P with a non-empty key in any collection,
\* validateKey(P.key, siblings of P, P.id) returns null iff P.key matches the key
\* grammar and no other property with the same parentId has the same key after
\* trimming.
C15_KeyValid ==
    rt.stage = "key" =>
        (rt.error = Null <=>
            KEY_PATTERN(rt.P[rt.i].key) /\ ~SharesTrimmedKey(rt.P, rt.i))

\* C16: for every declared type T and every raw input, if convertValue(raw, T) is
\* not null then validateValue(convertValue(raw, T), T) is true.
C16_ConvertedIsValid ==
    rt.stage = "validated" /\ rt.value # VNull => rt.ok

\* the text parses as JSON to a mapping that is neither null nor an array
ParsesToMapping(text) ==
    \E parsed \in {JSONParse(text)} : parsed # SyntaxError /\ parsed[1] = "object"

\* C17: convertValue returns null for every text outside the grammar of the
\* declared type: for boolean every string other than exactly "true" or "false",
\* for object every string that does not parse as JSON to a non-null, non-array
\* mapping.
C17_FailureIsNull ==
    rt.stage = "converted" /\ rt.raw[1] = "string" =>
        /\ rt.type = "boolean" /\ rt.raw[2] \notin {"true", "false"} => rt.value = VNull
        /\ rt.type = "object" /\ ~ParsesToMapping(rt.raw[2]) => rt.value = VNull

\* C18: auto-persist writes nothing while isInitialLoad is true: over any
\* interleaving of autoSave calls, setInitialLoad calls and timeouts running, no
\* saveSchema started by autoSave runs while the initial-load phase is in effect.
C18_NoWriteDuringInitialLoad ==
    \A k \in 1..Len(journal) :
        journal[k].event = "saveSchema" => ~journal[k].isInitialLoad

\* the positions of the journal at which autoSave set a timeout, and at which a
\* callback of autoSave saved
CallsAt == {k \in 1..Len(journal) : journal[k].event = "autoSave"}
SavesAt == {k \in 1..Len(journal) : journal[k].event = "saveSchema"}

\* the call at position k was followed by another call: it is superseded
Superseded(k) == \E j \in CallsAt : j > k

\* the saves made by the callback of the call at position k
SavesOf(k) == {w \in SavesAt : journal[w].timer = journal[k].timer}

\* C19: of the autoSave calls made outside the initial-load phase, each one
\* followed by another within the debounce period (or at any time before its
\* timeout ran) never has its callback run; the last one results in exactly one
\* write once its timeout has run, not before 500 ms after that call, holding the
\* schema and the non-blank-key properties passed to it; and at most one auto-save
\* timeout is pending at any time.
C19_Debounced ==
    /\ Cardinality({t \in timers : t.callback = "autoSave"}) <= 1
    /\ \A w \in SavesAt : \E k \in CallsAt : w \in SavesOf(k)
    /\ \A k \in CallsAt :
          /\ \A w \in SavesOf(k) :
                /\ k < w
                /\ ~\E j \in CallsAt : k < j /\ j < w
                /\ journal[w].at >= journal[k].at + AUTO_SAVE_DEBOUNCE_MS
                /\ journal[w].schema = journal[k].schema
                /\ journal[w].properties = SelectSeq(journal[k].properties, HasKey)
                /\ (\A v \in SavesAt : v <= w) =>
                      /\ storage # <<>>
                      /\ storage[1].schema = journal[w].schema
                      /\ storage[1].properties = journal[w].properties
          /\ Cardinality(SavesOf(k)) <= 1
          /\ \E j \in CallsAt : j > k /\ journal[j].at < journal[k].at + AUTO_SAVE_DEBOUNCE_MS
                => SavesOf(k) = {}
          /\ ~Superseded(k) =>
                IF \E t \in timers : t.id = journal[k].timer
                THEN SavesOf(k) = {}
                ELSE Cardinality(SavesOf(k)) = 1

\* three calls less than 500 ms apart, the last with a property that has no key,
\* and then one write, of the last call's schema and its property with a key
C19_Witness ==
    /\ Len(journal) = 4
    /\ \A k \in 1..3 : journal[k].event = "autoSave"
    /\ \A k \in 1..2 : journal[k + 1].at - journal[k].at < AUTO_SAVE_DEBOUNCE_MS
    /\ journal[2].at > journal[1].at
    /\ Len(journal[3].properties) = 2
    /\ journal[2].properties # journal[3].properties
    /\ journal[4].event = "saveSchema"
    /\ journal[4].timer = journal[3].timer
    /\ Len(journal[4].properties) = 1
    /\ storage[1].properties = journal[4].properties
    /\ timers = {}

\* the collection has stopped changing and the latest auto-validation timeout has
\* run: the effect has seen the current collection and no timeout of autoValidate
\* is pending
ValidationSettled ==
    /\ deps = <<properties>>
    /\ ~\E t \in timers : t.callback = "autoValidate"

\* the ids of the properties of the collection that fail a field check
FailingIds ==
    {properties[i].id : i \in {j \in 1..Len(properties) :
                                  DOMAIN validateProperty(properties[j], properties) # {}}}

\* C20: once the collection has stopped changing and the latest auto-validation
\* timeout has run, the validation store's errors are the recomputed error set of
\* the current collection: an entry for exactly the properties of the collection
\* that fail a field check, none for one that passes or is no longer there.
C20_ErrorsRecomputed ==
    ValidationSettled =>
        /\ DOMAIN validation.errors = FailingIds
        /\ \A i \in 1..Len(properties) :
              properties[i].id \in FailingIds =>
                  validation.errors[properties[i].id]
                      = validateProperty(properties[i], properties)

\* C21: copySchemaToClipboard returns false without writing to the clipboard when
\* the schema string is empty, when the current schema is the canonical
\* empty-object schema (reached by clearSchema or by removing the last property),
\* or when isValid is false.
C21_CopyRefuses ==
    /\ call.op = "copySchemaToClipboard"
    /\ pre.schemaString = "" \/ pre.schema = EmptySchema \/ ~pre.isValid
    => call.ret = FALSE /\ call.writeText = <<>>

\* C22: when children are only created under object-typed parents and properties
\* are then edited with updateProperty, every property that another property
\* names as its parentId has type object, also after a parent's type is changed.
C22_ParentsAreObjects ==
    \A i, j \in 1..Len(properties) :
        properties[j].parentId = properties[i].id => properties[i].type = "object"

\* C24: for a property p of a collection that holds all of p's ancestors,
\* validateProperty(p, all) has a nesting error iff p's nesting depth (parentId
\* hops to the root) exceeds 10; at depth 10 or less there is none.
C24_NestingError ==
    \A i \in 1..Len(properties) :
        ~OnOrBelowCycle(properties, properties[i].id) =>
            ("nesting" \in DOMAIN validateProperty(properties[i], properties)
                <=> NestingDepth(properties, properties[i].id) > 10)

\* the collection has a property at depth 10 without a nesting error and one at
\* depth 11 with it
C24_Witness ==
    \E i, j \in 1..Len(properties) :
        /\ NestingDepth(properties, properties[i].id) = 10
        /\ "nesting" \notin DOMAIN validateProperty(properties[i], properties)
        /\ NestingDepth(properties, properties[j].id) = 11
        /\ "nesting" \in DOMAIN validateProperty(properties[j], properties)

\* C26: after removeProperty(id) returns, the schema is propertiesToSchema of the
\* remaining properties with a non-blank key and the schema string is that schema
\* as 2-space-indented JSON, also when the removed property had a blank key, when
\* no property has the id, and when the collection becomes empty.
C26_RemoveRegenerates ==
    (call.op = "removeProperty" /\ call.threw = "no")
    => /\ schema = propertiesToSchema(Keyed(properties))
       /\ schemaString = formatJSON(schema)

\* a blank-key property has been removed while the schema held was not the one of
\* the collection, and the schema has been regenerated
C26_Witness ==
    /\ call.op = "removeProperty"
    /\ call.threw = "no"
    /\ \E i \in 1..Len(pre.properties) :
          pre.properties[i].id = call.id /\ ~NonBlankKey(pre.properties[i].key)
    /\ pre.schema # propertiesToSchema(Keyed(pre.properties))
    /\ schema # pre.schema

\* C30: reorderProperties(fromIndex, toIndex, parentId) only permutes the
\* collection: for every pair of indices, in range or not, the collection keeps
\* its size and its properties, holds no undefined entry, and the properties that
\* are not siblings under parentId keep their relative order.
C30_ReorderPermutes ==
    call.op = "reorderProperties"
    => /\ Len(properties) = Len(pre.properties)
       /\ \A i \in 1..Len(properties) : properties[i] # UndefinedEntry
       /\ \A i \in 1..Len(pre.properties) :
             \E j \in 1..Len(properties) : properties[j] = pre.properties[i]
       /\ SelectSeq(properties, LAMBDA p : p.parentId # call.parentId)
             = SelectSeq(pre.properties, LAMBDA p : p.parentId # call.parentId)

\* C29: removeProperty(id) terminates for every collection the store can hold,
\* collections in which a property is its own parent or the parentId links form a
\* cycle included: the descendant search never exhausts the call stack.
C29_RemoveTerminates ==
    call.op = "removeProperty" => call.threw # "RangeError"

\* C27: every snapshot auto-save writes to storage is consistent: its schema is
\* propertiesToSchema of its properties, whatever adds, updates (one that blanks
\* the key of a property of the schema included) and removals came before.
C27_SnapshotConsistent ==
    storage # <<>> => storage[1].schema = propertiesToSchema(storage[1].properties)

\* every non-null parentId of the collection names a property of the collection
ParentsPresent(props) ==
    \A i \in 1..Len(props) : props[i].parentId = Null \/ props[i].parentId \in Ids(props)

\* the collection handed to the autoSave call whose callback wrote what storage holds
SavedFrom ==
    LET w == CHOOSE v \in SavesAt : \A u \in SavesAt : u <= v
        k == CHOOSE j \in CallsAt : journal[j].timer = journal[w].timer
    IN  journal[k].properties

\* C28: saving and reloading keeps the parent links whole: if every non-null
\* parentId named a property of the collection handed to auto-save, the collection
\* restoreProperties builds from the snapshot written has no property whose
\* parentId names a missing property.
C28_RestoreKeepsParents ==
    (/\ call.op = "restoreProperties"
     /\ call.threw = "no"
     /\ storage # <<>>
     /\ call.savedProperties = storage[1].properties
     /\ ParentsPresent(SavedFrom))
    => ParentsPresent(properties)

\* C23: once handleTypeChange or handleValueBlur has run, the stored value of the
\* property is null or has the shape of its declared type: a string, number or
\* boolean for those types, an object for object, an array for array.
C23_ValueFitsType ==
    (/\ FindIndex(properties, IdOf(1)) # 0
     /\ editing.event \in {"handleTypeChange", "handleValueBlur"})
    => \/ Edited.value = VNull
       \/ Edited.type \notin {"string", "number", "boolean", "object", "array"}
       \/ Edited.value[1] = Edited.type

\* C25: after handleValueBlur no value-update or value-validation timeout of the
\* editor is pending, the store holds the value converted from the text of the
\* box, and no callback set by an earlier keystroke runs to overwrite it.
C25_BlurFlushes ==
    (/\ FindIndex(properties, IdOf(1)) # 0
     /\ editing.event = "handleValueBlur")
    => /\ \A t \in timers : t.callback \notin {"valueUpdate", "valueValidation"}
       /\ editing.valueUpdateTimerRef = 0
       /\ editing.valueValidationTimerRef = 0
       /\ Edited.value = convertValue(<<"string", editing.localValue>>, editing.localType)

====
